---------------------------- MODULE Spec2Model ----------------------------
(***************************************************************************)
(* A model of the compliance-verification engine of ArbiterOS Legal        *)
(* Confidant: the rule checkers and the form synthesizer                   *)
(* (services/legalEngine.ts), the policy gate (LegalPackages/auditor.ts),  *)
(* the tool loop of sendLegalMessage (services/geminiService.ts) and the   *)
(* audit ledger it writes to (contexts/AuditContext).                      *)
(*                                                                         *)
(* Strings the code inspects (toLowerCase, includes, length) are sequences *)
(* of one-character strings.  Texts the code only builds (details,         *)
(* documents) are sequences of pieces: a literal of the source or an       *)
(* interpolated value.                                                     *)
(***************************************************************************)
EXTENDS Integers, Sequences, FiniteSets, TLC

VARIABLES
    op,        \* SpecEngine: name of the engine function being called
    arg,       \* SpecEngine: its arguments
    ret,       \* SpecEngine: what the call did (a returned value, or a throw)
    now,       \* the clock read by new Date()
    pc,        \* Spec: position of the sendLegalMessage run
    menu,      \* Spec: the tool calls the language model may ask for in this run
    toolsPolicyState,  \* Spec: the run's policy state {ordinaryPassed}
    offered,   \* Spec: tool names handed to the latest generateContent call
    turns,     \* Spec: the loop counter of the tool loop
    functionCalls,     \* Spec: calls of the current batch not yet executed
    functionResponses, \* Spec: responses of the current batch
    contents,  \* Spec: the conversation sent to the language model
    entries,   \* the audit ledger (the state of AuditProvider), newest first
    finalResponseText, \* Spec: the text the run returns
    library,   \* the keys of LAW_LIBRARY the corpus holds
    updateQueue,  \* SpecLedger: the setEntries updates React has not processed yet
    advisor,   \* SpecLedger: position of the Advisor's handleSend
    studio,    \* SpecLedger: position of the Studio's handleGenerate
    appended,  \* SpecLedger: the entries handed to addEntry since the last reset, in call order
    atReset,   \* SpecLedger: what the ledger held after the last reset (or at creation)
    lastOp,    \* SpecLedger: the ledger operation called last
    earlier,   \* SpecReplay: an earlier invocation of a checker, with what it returned
    runs,      \* SpecRuns: the locals of each sendLegalMessage run
    currentView,  \* SpecAdvisor: the view the application shows
    legalAdvisor, \* SpecAdvisor: the state of the mounted LegalAdvisor
    sends      \* SpecAdvisor: the handleSend calls that have not ended

engineVars == <<op, arg, ret>>
runVars == <<pc, menu, toolsPolicyState, offered, turns, functionCalls,
             functionResponses, contents, entries, finalResponseText>>
ledgerVars == <<updateQueue, advisor, studio, appended, atReset, lastOp>>
restVars == <<earlier, runs, currentView, legalAdvisor, sends>>
vars == <<op, arg, ret, now, pc, menu, toolsPolicyState, offered, turns, functionCalls,
          functionResponses, contents, entries, finalResponseText, library,
          updateQueue, advisor, studio, appended, atReset, lastOp,
          earlier, runs, currentView, legalAdvisor, sends>>

---------------------------------------------------------------------------
(* Bounds of the model *)

\* largest absolute value of an amount handed to verifyNecessary
MaxAmount == 4
\* largest value of the clock
MaxClock == 1
\* longest run history handed to isNecessaryEnabled
MaxHist == 3
\* most tool calls one sendLegalMessage run executes
MaxCalls == 5
\* most addEntry calls between two resets of the ledger
MaxAppends == 3
\* most setEntries updates queued between two renders
MaxPending == 3
\* most function calls in one response of the language model, in SpecRuns
MaxBatch == 2

---------------------------------------------------------------------------
(* JavaScript values and strings *)

Str(s) == [t |-> "string", s |-> s]
Undefined == [t |-> "undefined", s |-> <<>>]

\* what a function call did
Return(v) == [kind |-> "return", value |-> v]
Throw(e) == [kind |-> "throw", error |-> e]

UpperChars == <<"A","B","C","D","E","F","G","H","I","J","K","L","M","N","O","P","Q","R","S","T","U","V","W","X","Y","Z">>
LowerChars == <<"a","b","c","d","e","f","g","h","i","j","k","l","m","n","o","p","q","r","s","t","u","v","w","x","y","z">>

UpperSet == {UpperChars[i] : i \in 1..Len(UpperChars)}
LowerSet == {LowerChars[i] : i \in 1..Len(LowerChars)}
LowerOf == [c \in UpperSet |-> LowerChars[CHOOSE i \in 1..Len(UpperChars) : UpperChars[i] = c]]
UpperOf == [c \in LowerSet |-> UpperChars[CHOOSE i \in 1..Len(LowerChars) : LowerChars[i] = c]]

\* String.prototype.toLowerCase on one character
LowerChar(c) == IF c \in UpperSet THEN LowerOf[c] ELSE c

\* String.prototype.toLowerCase
toLowerCase(s) == [i \in 1..Len(s) |-> LowerChar(s[i])]

\* String.prototype.toUpperCase, used to build inputs only
UpperChar(c) == IF c \in LowerSet THEN UpperOf[c] ELSE c
toUpperCase(s) == [i \in 1..Len(s) |-> UpperChar(s[i])]

\* String.prototype.includes: p occurs in s as a substring
includes(s, p) ==
    \E i \in 1..(Len(s) - Len(p) + 1) : \A j \in 1..Len(p) : s[i + j - 1] = p[j]

\* a template-literal interpolation `${v}` of a JavaScript value
S_undefined == <<"u","n","d","e","f","i","n","e","d">>
ToString_(v) == IF v.t = "undefined" THEN S_undefined ELSE v.s

\* pieces of a built text
Lit(l) == [lit |-> l, val |-> <<>>]
Val(v) == [lit |-> "", val |-> ToString_(v)]

\* Array.prototype.join of texts (sequences of pieces)
RECURSIVE join(_, _)
join(parts, sep) ==
    IF Len(parts) = 0 THEN <<>>
    ELSE IF Len(parts) = 1 THEN parts[1]
    ELSE parts[1] \o <<Lit(sep)>> \o join(Tail(parts), sep)

\* new Date().toISOString()
Timestamp(t) == t

---------------------------------------------------------------------------
(* 1. The database client and the Ordinary-Expense checker *)

S_truck == <<"t","r","u","c","k">>
S_hammer == <<"h","a","m","m","e","r">>
S_saw == <<"s","a","w">>
S_toolbox == <<"t","o","o","l","b","o","x">>
S_work_boots == <<"w","o","r","k","_","b","o","o","t","s">>
S_laptop == <<"l","a","p","t","o","p">>

CARPENTER_NAICS == "238350"
OrdinaryItems == <<S_truck, S_hammer, S_saw, S_toolbox, S_work_boots>>
Endpoint == "https://api.law.gov/rac/irc"

\* Array.prototype.includes on the list of ordinary items
listIncludes(list, x) == \E i \in 1..Len(list) : list[i] = x

QuerySource(naics) ==
    <<Lit("LIVE_QUERY: "), Lit(Endpoint), Lit("/section/162a/precedent?naics="), Lit(naics)>>

\* a bug: compares the expense as typed, without lowercasing it
query_CaseSensitive(naics, expense) ==
    IF naics = CARPENTER_NAICS
    THEN IF expense.t = "undefined"
         THEN Throw("TypeError")
         ELSE IF listIncludes(OrdinaryItems, expense.s)
              THEN Return([is_ordinary |-> TRUE, source |-> QuerySource(naics)])
              ELSE Return([is_ordinary |-> FALSE, source |-> QuerySource(naics)])
    ELSE Return([is_ordinary |-> FALSE, source |-> QuerySource(naics)])

\* VerifiableLawDatabaseClient.query; && evaluates expense.toLowerCase() only
\* when the NAICS code matches, and that throws for a missing expense
query(naics, expense) ==
    IF naics = CARPENTER_NAICS
    THEN IF expense.t = "undefined"
         THEN Throw("TypeError")
         ELSE IF listIncludes(OrdinaryItems, toLowerCase(expense.s))
              THEN Return([is_ordinary |-> TRUE, source |-> QuerySource(naics)])
              ELSE Return([is_ordinary |-> FALSE, source |-> QuerySource(naics)])
    ELSE Return([is_ordinary |-> FALSE, source |-> QuerySource(naics)])

verifyOrdinary(naics_code, expense_item_category, t) ==
    LET q == query(naics_code, expense_item_category) IN
    IF q.kind = "throw" THEN q
    ELSE LET is_ordinary == q.value.is_ordinary IN
         Return([rule_id |-> "rule_is_ordinary",
                 passed |-> is_ordinary,
                 details |->
                    IF is_ordinary
                    THEN <<Lit("PASSED: '"), Val(expense_item_category),
                           Lit("' is a verifiable \"ordinary\" expense under IRC Sec 162(a) for NAICS code "),
                           Lit(naics_code), Lit(".")>>
                    ELSE <<Lit("FAILED: '"), Val(expense_item_category),
                           Lit("' is NOT a verifiable \"ordinary\" expense under IRC Sec 162(a) for NAICS code "),
                           Lit(naics_code), Lit(".")>>,
                 evidence_source |-> q.value.source,
                 timestamp |-> Timestamp(t)])

---------------------------------------------------------------------------
(* 2. The Necessity-Ratio checker *)

\* expense_amount / business_revenue in IEEE arithmetic, for integer operands
Divide(a, b) ==
    IF b # 0 THEN [cls |-> "finite", num |-> a, den |-> b]
    ELSE IF a > 0 THEN [cls |-> "+Infinity", num |-> 0, den |-> 1]
    ELSE IF a < 0 THEN [cls |-> "-Infinity", num |-> 0, den |-> 1]
    ELSE [cls |-> "NaN", num |-> 0, den |-> 1]

\* a bug: the threshold excluded
LeqHalf_Strict(r) ==
    CASE r.cls = "finite" -> IF r.den > 0 THEN 2 * r.num < r.den ELSE 2 * r.num > r.den
      [] r.cls = "-Infinity" -> TRUE
      [] OTHER -> FALSE

\* ratio <= 0.5
LeqHalf(r) ==
    CASE r.cls = "finite" -> IF r.den > 0 THEN 2 * r.num <= r.den ELSE 2 * r.num >= r.den
      [] r.cls = "-Infinity" -> TRUE
      [] OTHER -> FALSE

Abs(n) == IF n < 0 THEN -n ELSE n

\* (ratio * 100).toFixed(1)
PercentToFixed1(r) ==
    CASE r.cls = "finite" ->
            LET q == (2 * Abs(1000 * r.num) + Abs(r.den)) \div (2 * Abs(r.den)) IN
            (IF (r.num < 0) # (r.den < 0) /\ r.num # 0 THEN "-" ELSE "")
              \o ToString(q \div 10) \o "." \o ToString(q % 10)
      [] r.cls = "+Infinity" -> "Infinity"
      [] r.cls = "-Infinity" -> "-Infinity"
      [] OTHER -> "NaN"

\* a bug: the details carry the time of the call
verifyNecessary_Stamped(expense_amount, business_revenue, t) ==
    LET ratio == Divide(expense_amount, business_revenue)
        is_necessary == LeqHalf(ratio)
    IN  Return([rule_id |-> "rule_is_necessary",
                passed |-> is_necessary,
                details |-> <<Lit("Expense-to-Revenue ratio is "), Lit(PercentToFixed1(ratio)),
                              Lit("% at "), Lit(ToString(Timestamp(t)))>>,
                evidence_source |-> <<Lit("Business Logic (Ratio Analysis)")>>,
                timestamp |-> Timestamp(t)])

verifyNecessary(expense_amount, business_revenue, t) ==
    LET ratio == Divide(expense_amount, business_revenue)
        is_necessary == LeqHalf(ratio)
    IN  Return([rule_id |-> "rule_is_necessary",
                passed |-> is_necessary,
                details |->
                    IF is_necessary
                    THEN <<Lit("PASSED: Expense-to-Revenue ratio is "), Lit(PercentToFixed1(ratio)),
                           Lit("% (within 50% threshold).")>>
                    ELSE <<Lit("FAILED: Expense-to-Revenue ratio is "), Lit(PercentToFixed1(ratio)),
                           Lit("% (exceeds 50% threshold).")>>,
                evidence_source |-> <<Lit("Business Logic (Ratio Analysis)")>>,
                timestamp |-> Timestamp(t)])

---------------------------------------------------------------------------
(* 0. The Law Library *)

K_UCC_3_104 == <<"U","C","C"," ","3","-","1","0","4">>
K_UCC_9_203 == <<"U","C","C"," ","9","-","2","0","3">>
K_UCC_2_201 == <<"U","C","C"," ","2","-","2","0","1">>
K_FTC_Credit_Rule == <<"F","T","C"," ","C","r","e","d","i","t"," ","R","u","l","e">>

\* Object.keys(LAW_LIBRARY), in insertion order
LibraryKeys == <<K_UCC_3_104, K_UCC_9_203, K_UCC_2_201, K_FTC_Credit_Rule>>
\* the corpus as the source has it: every key
ShippedLibrary == 1..Len(LibraryKeys)

LAW_LIBRARY(i) ==
    CASE i = 1 -> [title |-> "Negotiable Instrument",
                   source |-> "Uniform Commercial Code Sec. 3-104",
                   text |-> "text of UCC 3-104"]
      [] i = 2 -> [title |-> "Attachment and Enforceability of Security Interest",
                   source |-> "Uniform Commercial Code Sec. 9-203",
                   text |-> "text of UCC 9-203"]
      [] i = 3 -> [title |-> "Formal Requirements; Statute of Frauds",
                   source |-> "Uniform Commercial Code Sec. 2-201",
                   text |-> "text of UCC 2-201"]
      [] i = 4 -> [title |-> "Unfair Credit Practices",
                   source |-> "16 CFR Sec. 444.2",
                   text |-> "text of 16 CFR 444.2"]

\* a bug: only a key inside the query matches, not a query inside the key
KeyMatches_KeyInQueryOnly(q, k) == includes(toLowerCase(q), toLowerCase(k))

\* the predicate of Object.keys(LAW_LIBRARY).find
KeyMatches(q, k) ==
    \/ includes(toLowerCase(q), toLowerCase(k))
    \/ includes(toLowerCase(k), toLowerCase(q))

\* consultStatute for a string query: the first matching key, or found: false
consultStatute(q) ==
    IF \E i \in 1..Len(LibraryKeys) : i \in library /\ KeyMatches(q, LibraryKeys[i])
    THEN LET key == CHOOSE i \in 1..Len(LibraryKeys) :
                        /\ i \in library
                        /\ KeyMatches(q, LibraryKeys[i])
                        /\ \A j \in 1..(i - 1) : ~(j \in library /\ KeyMatches(q, LibraryKeys[j]))
         IN  [found |-> TRUE,
              title |-> LAW_LIBRARY(key).title,
              text |-> LAW_LIBRARY(key).text,
              citation |-> LAW_LIBRARY(key).source]
    ELSE [found |-> FALSE]

\* a bug: no fallback, so that a missing field reads as undefined
OrElse_NoFallback(rec, fieldName, fallback) ==
    IF fieldName \in DOMAIN rec THEN rec[fieldName] ELSE "undefined"

\* rec.field || fallback, for a field that may be absent
OrElse(rec, fieldName, fallback) ==
    IF fieldName \in DOMAIN rec THEN rec[fieldName] ELSE fallback

---------------------------------------------------------------------------
(* 3. The Negotiability checker *)

F_promise == <<Lit("Must be an unconditional promise (UCC 3-104(a))")>>
F_amount == <<Lit("Must specify a fixed amount of money (UCC 3-104(a))")>>
F_payable == <<Lit("Must be payable to bearer or to order (UCC 3-104(a)(1))")>>
F_timing == <<Lit("Must be payable on demand or at a definite time (UCC 3-104(a)(2))")>>
F_undertaking == <<Lit("Must not state any other undertaking (UCC 3-104(a)(3))")>>

\* failures.push(x) when cond holds
pushIf(list, cond, x) == IF cond THEN Append(list, x) ELSE list

\* a bug: an else-if chain, which stops at the first violation
verifyNegotiabilityFailures_ShortCircuit(terms) ==
    IF terms.promise_type # "unconditional" THEN <<F_promise>>
    ELSE IF terms.amount_type # "fixed" THEN <<F_amount>>
    ELSE IF terms.payable_to = "specific_person" THEN <<F_payable>>
    ELSE IF terms.timing = "indefinite" THEN <<F_timing>>
    ELSE IF terms.other_undertakings THEN <<F_undertaking>>
    ELSE <<>>

\* the five ifs of verifyNegotiability, each pushing onto failures
verifyNegotiabilityFailures(terms) ==
    LET f1 == pushIf(<<>>, terms.promise_type # "unconditional", F_promise)
        f2 == pushIf(f1, terms.amount_type # "fixed", F_amount)
        f3 == pushIf(f2, terms.payable_to = "specific_person", F_payable)
        f4 == pushIf(f3, terms.timing = "indefinite", F_timing)
        f5 == pushIf(f4, terms.other_undertakings, F_undertaking)
    IN  f5

verifyNegotiability(terms, t) ==
    LET statute == consultStatute(K_UCC_3_104)
        failures == verifyNegotiabilityFailures(terms)
        passed == Len(failures) = 0
    IN  Return([rule_id |-> "UCC_3_104",
                passed |-> passed,
                details |->
                    IF passed
                    THEN <<Lit("PASSED: Instrument meets all UCC 3-104 requirements for negotiability.")>>
                    ELSE <<Lit("FAILED: Non-negotiable. Violations: ")>> \o join(failures, ", "),
                evidence_source |-> <<Lit(OrElse(statute, "citation", "UCC 3-104"))>>,
                timestamp |-> Timestamp(t)])

---------------------------------------------------------------------------
(* 4. The Clause-Risk scanner *)

P_waive_all_rights == <<"w","a","i","v","e"," ","a","l","l"," ","r","i","g","h","t","s">>
P_waive_jury_trial == <<"w","a","i","v","e"," ","j","u","r","y"," ","t","r","i","a","l">>
P_arbitration == <<"a","r","b","i","t","r","a","t","i","o","n">>
P_indemnify == <<"i","n","d","e","m","n","i","f","y">>
P_hold_harmless == <<"h","o","l","d"," ","h","a","r","m","l","e","s","s">>
P_gross_negligence == <<"g","r","o","s","s"," ","n","e","g","l","i","g","e","n","c","e">>
P_perpetuity == <<"p","e","r","p","e","t","u","i","t","y">>
P_penalty == <<"p","e","n","a","l","t","y">>
P_liquidated_damages == <<"l","i","q","u","i","d","a","t","e","d"," ","d","a","m","a","g","e","s">>
P_confession_of_judgment == <<"c","o","n","f","e","s","s","i","o","n"," ","o","f"," ","j","u","d","g","m","e","n","t">>
P_cognovit == <<"c","o","g","n","o","v","i","t">>
P_service == <<"s","e","r","v","i","c","e">>

R_arbitration ==
    <<Lit("CRITICAL: Mandatory arbitration/waiver clauses require scrutiny under Federal Arbitration Act (9 U.S.C. Sec. 1 et seq).")>>
R_indemnify ==
    <<Lit("HIGH: Indemnification for gross negligence is often void against public policy per Restatement (Second) of Contracts.")>>
R_perpetuity ==
    <<Lit("MEDIUM: Perpetual terms in service contracts are generally disfavored in common law.")>>
R_penalty ==
    <<Lit("HIGH: Punitive penalties are generally unenforceable (UCC Sec. 2-718 requires reasonableness).")>>
R_confession_default ==
    <<Lit("CRITICAL: Confession of Judgment clauses are prohibited in consumer contracts (16 CFR 444.2).")>>
R_confession(ftcRule) ==
    IF ftcRule.found
    THEN <<Lit("CRITICAL: Prohibited in consumer contracts. Source: "), Lit(ftcRule.citation)>>
    ELSE R_confession_default

\* a bug: an else-if chain, so that a later check is skipped once one matched
analyzeContractRisksList_FirstOnly(lowerText, docType) ==
    IF \/ includes(lowerText, P_waive_all_rights)
       \/ includes(lowerText, P_waive_jury_trial)
       \/ includes(lowerText, P_arbitration)
    THEN <<R_arbitration>>
    ELSE IF /\ includes(lowerText, P_indemnify) \/ includes(lowerText, P_hold_harmless)
            /\ includes(lowerText, P_gross_negligence)
    THEN <<R_indemnify>>
    ELSE IF includes(lowerText, P_perpetuity) /\ includes(docType, P_service)
    THEN <<R_perpetuity>>
    ELSE IF includes(lowerText, P_penalty) /\ ~includes(lowerText, P_liquidated_damages)
    THEN <<R_penalty>>
    ELSE IF includes(lowerText, P_confession_of_judgment) \/ includes(lowerText, P_cognovit)
    THEN <<R_confession(consultStatute(K_FTC_Credit_Rule))>>
    ELSE <<>>

\* the five ifs of analyzeContractRisks, each pushing onto risks
analyzeContractRisksList(lowerText, docType) ==
    LET r1 == pushIf(<<>>,
                     \/ includes(lowerText, P_waive_all_rights)
                     \/ includes(lowerText, P_waive_jury_trial)
                     \/ includes(lowerText, P_arbitration),
                     R_arbitration)
        r2 == pushIf(r1,
                     /\ includes(lowerText, P_indemnify) \/ includes(lowerText, P_hold_harmless)
                     /\ includes(lowerText, P_gross_negligence),
                     R_indemnify)
        r3 == pushIf(r2,
                     includes(lowerText, P_perpetuity) /\ includes(docType, P_service),
                     R_perpetuity)
        r4 == pushIf(r3,
                     includes(lowerText, P_penalty) /\ ~includes(lowerText, P_liquidated_damages),
                     R_penalty)
        r5 == IF includes(lowerText, P_confession_of_judgment) \/ includes(lowerText, P_cognovit)
              THEN Append(r4, R_confession(consultStatute(K_FTC_Credit_Rule)))
              ELSE r4
    IN  r5

analyzeContractRisks(clauseText, docType, t) ==
    LET lowerText == toLowerCase(clauseText)
        risks == analyzeContractRisksList(lowerText, docType)
        passed == Len(risks) = 0
    IN  Return([rule_id |-> "RISK_SCAN_USC_UCC",
                passed |-> passed,
                details |->
                    IF passed
                    THEN <<Lit("CLEAN: No critical statutory risks identified in extracted clause.")>>
                    ELSE <<Lit("RISK ALERT: ")>> \o join(risks, " | "),
                evidence_source |-> <<Lit("USC Title 15, UCC & CFR Title 16")>>,
                timestamp |-> Timestamp(t)])

---------------------------------------------------------------------------
(* 5. The Form Synthesizer *)

FormFields == {"amount", "date", "lender", "borrower", "state", "debtor", "secured_party",
               "obligation", "collateral", "seller", "buyer", "goods_description",
               "client", "contractor", "services"}

\* JavaScript truthiness of a string or undefined
Truthy(v) == v.t = "string" /\ Len(v.s) > 0

\* `${v || fallback}`
OrLit(v, fallback) == IF Truthy(v) THEN Val(v) ELSE Lit(fallback)

\* new Date().toISOString().split('T')[0]
Today(t) == Lit("date@" \o ToString(t))

M_BLOCKED == Lit("GENERATION BLOCKED")

T_Note_1 == Lit("# PROMISSORY NOTE (UCC 3-104 Compliant) / Principal Amount: $")
T_Note_2 == Lit(" / Date: ")
T_Note_3 == Lit(" / FOR VALUE RECEIVED, the undersigned (Borrower) promises to pay to the order of ")
T_Note_4 == Lit(" (Lender) the principal sum of $")
T_Note_5 == Lit(" USD. / 1. PAYMENT. ")
T_Note_5a == Lit("Payment shall be made in full on ")
T_Note_5b == Lit("Payment shall be made immediately upon demand by Lender.")
T_Note_6 == Lit(" / 2. UNCONDITIONAL PROMISE. / 3. GOVERNING LAW. ... State of ")
T_Note_7 == Lit(". / 4. WAIVERS. / 5. EXECUTION. / [SIGNATURE_FIELD:Borrower Signature] ")
T_Note_8 == Lit(" / [SIGNATURE_FIELD:Lender Signature] ")

T_Sec_1 == Lit("# SECURITY AGREEMENT (UCC Article 9) / This Security Agreement is entered into on ")
T_Sec_2 == Lit(" between ")
T_Sec_3 == Lit(" (Debtor) and ")
T_Sec_4 == Lit(" (Secured Party). / 1. GRANT OF SECURITY INTEREST. ... the obligation described as: ")
T_Sec_4a == Lit("Promissory Note dated ")
T_Sec_5 == Lit(". / 2. COLLATERAL DESCRIPTION. The Collateral consists of the following: > ")
T_Sec_6 == Lit(" / 3. PERFECTION. / 4. DEFAULT. ... Uniform Commercial Code of ")
T_Sec_7 == Lit(". / [SIGNATURE_FIELD:Debtor Authentication] ")

T_Bill_1 == Lit("# BILL OF SALE (UCC Article 2) / Seller: ")
T_Bill_2 == Lit(" / Buyer: ")
T_Bill_3 == Lit(" / Date: ")
T_Bill_4 == Lit(" / Consideration: $")
T_Bill_5 == Lit(" / FOR VALUE RECEIVED, Seller hereby sells ... DESCRIPTION OF GOODS: ")
T_Bill_6 == Lit(" / WARRANTIES: ... / [SIGNATURE_FIELD:Seller] ")
T_Bill_7 == Lit(" / [SIGNATURE_FIELD:Buyer] ")

T_Con_1 == Lit("# INDEPENDENT CONTRACTOR AGREEMENT / This Agreement is made between ")
T_Con_2 == Lit(" and ")
T_Con_3 == Lit(". / 1. SERVICES. Contractor agrees to perform the following services: ")
T_Con_4 == Lit(" / 2. INDEPENDENT CONTRACTOR STATUS. / 3. WORK FOR HIRE. / 4. CONFIDENTIALITY. / [SIGNATURE_FIELD:Contractor] ")
T_Con_5 == Lit(" / [SIGNATURE_FIELD:Client] ")

\* branch 1 of generateVerifiedForm: the promissory note
formPromissoryNote(data, t) ==
    LET check == verifyNegotiability(
                    [promise_type |-> "unconditional",
                     amount_type |-> "fixed",
                     payable_to |-> "order",
                     timing |-> IF Truthy(data["date"]) THEN "definite" ELSE "demand",
                     other_undertakings |-> FALSE], t).value
    IN  IF check.passed
        THEN [markdown |->
                <<T_Note_1, OrLit(data["amount"], "___"),
                  T_Note_2, OrLit(data["date"], "On Demand"),
                  T_Note_3, OrLit(data["lender"], "___"),
                  T_Note_4, OrLit(data["amount"], "___"),
                  T_Note_5>>
                \o (IF Truthy(data["date"])
                    THEN <<T_Note_5a, Val(data["date"]), Lit(".")>>
                    ELSE <<T_Note_5b>>)
                \o <<T_Note_6, OrLit(data["state"], "Delaware"),
                     T_Note_7, OrLit(data["borrower"], "Borrower"),
                     T_Note_8, OrLit(data["lender"], "Lender")>>,
              validation |-> check]
        ELSE [markdown |->
                <<Lit("> **"), M_BLOCKED, Lit("**: Protocol Violation. > Reason: ")>> \o check.details,
              validation |-> check]

\* a bug: the threshold off by one, so that three characters are enough
hasCollateral_AtLeast3(data) == Truthy(data["collateral"]) /\ Len(data["collateral"].s) >= 3

\* data.collateral && data.collateral.length > 3
hasCollateral(data) == Truthy(data["collateral"]) /\ Len(data["collateral"].s) > 3

securityAgreementTemplate(data, t) ==
    <<T_Sec_1, (IF Truthy(data["date"]) THEN Val(data["date"]) ELSE Today(t)),
      T_Sec_2, OrLit(data["debtor"], "Debtor"),
      T_Sec_3, OrLit(data["secured_party"], "Secured Party"),
      T_Sec_4>>
    \o (IF Truthy(data["obligation"])
        THEN <<Val(data["obligation"])>>
        ELSE <<T_Sec_4a, OrLit(data["date"], "even date herewith")>>)
    \o <<T_Sec_5, Val(data["collateral"]),
         T_Sec_6, OrLit(data["state"], "Delaware"),
         T_Sec_7, OrLit(data["debtor"], "Debtor")>>

\* a bug: the template is rendered whatever the verdict
formSecurityAgreement_Unblocked(data, t) ==
    IF hasCollateral(data)
    THEN LET law == consultStatute(K_UCC_9_203) IN
         [markdown |-> securityAgreementTemplate(data, t),
          validation |->
            [rule_id |-> "UCC_9_203",
             passed |-> TRUE,
             details |-> <<Lit("PASSED: Contains granting clause and collateral description (UCC 9-203).")>>,
             evidence_source |-> <<Lit(OrElse(law, "citation", "UCC Article 9"))>>,
             timestamp |-> Timestamp(t)]]
    ELSE [markdown |-> securityAgreementTemplate(data, t),
          validation |->
            [rule_id |-> "UCC_9_203",
             passed |-> FALSE,
             details |-> <<Lit("FAILED: Missing sufficient description of Collateral (UCC 9-108).")>>,
             evidence_source |-> <<Lit("UCC Article 9")>>,
             timestamp |-> Timestamp(t)]]

\* branch 2 of generateVerifiedForm: the security agreement
formSecurityAgreement(data, t) ==
    IF hasCollateral(data)
    THEN LET law == consultStatute(K_UCC_9_203) IN
         [markdown |-> securityAgreementTemplate(data, t),
          validation |->
            [rule_id |-> "UCC_9_203",
             passed |-> TRUE,
             details |-> <<Lit("PASSED: Contains granting clause and collateral description (UCC 9-203).")>>,
             evidence_source |-> <<Lit(OrElse(law, "citation", "UCC Article 9"))>>,
             timestamp |-> Timestamp(t)]]
    ELSE [markdown |->
            <<Lit("> **"), M_BLOCKED,
              Lit("**: UCC 9-203 violation. Security Agreement must reasonably identify the collateral.")>>,
          validation |->
            [rule_id |-> "UCC_9_203",
             passed |-> FALSE,
             details |-> <<Lit("FAILED: Missing sufficient description of Collateral (UCC 9-108).")>>,
             evidence_source |-> <<Lit("UCC Article 9")>>,
             timestamp |-> Timestamp(t)]]

\* branch 3 of generateVerifiedForm: the bill of sale
formBillOfSale(data, t) ==
    [markdown |->
        <<T_Bill_1, OrLit(data["seller"], "___"),
          T_Bill_2, OrLit(data["buyer"], "___"),
          T_Bill_3, (IF Truthy(data["date"]) THEN Val(data["date"]) ELSE Today(t)),
          T_Bill_4, OrLit(data["amount"], "___"),
          T_Bill_5, OrLit(data["goods_description"], "[Insert Description and Serial Numbers]"),
          T_Bill_6, OrLit(data["seller"], "Seller"),
          T_Bill_7, OrLit(data["buyer"], "Buyer")>>,
     validation |->
        [rule_id |-> "UCC_2_201",
         passed |-> TRUE,
         details |-> <<Lit("PASSED: Written memorandum of sale (UCC 2-201).")>>,
         evidence_source |-> <<Lit("UCC Article 2")>>,
         timestamp |-> Timestamp(t)]]

\* branch 4 of generateVerifiedForm: the contractor agreement
formContractorAgreement(data, t) ==
    [markdown |->
        <<T_Con_1, OrLit(data["client"], "Client"),
          T_Con_2, OrLit(data["contractor"], "Contractor"),
          T_Con_3, OrLit(data["services"], "[Describe Services]"),
          T_Con_4, OrLit(data["contractor"], "Contractor"),
          T_Con_5, OrLit(data["client"], "Client")>>,
     validation |->
        [rule_id |-> "COMMON_LAW_AGENCY",
         passed |-> TRUE,
         details |-> <<Lit("PASSED: Explicitly defines Independent Contractor relationship.")>>,
         evidence_source |-> <<Lit("IRS Common Law Rules")>>,
         timestamp |-> Timestamp(t)]]

\* a bug: the branch of contractor_agreement is missing
generateVerifiedForm_NoContractor(type, data, t) ==
    CASE type = "promissory_note_ucc" -> formPromissoryNote(data, t)
      [] type = "security_agreement_ucc" -> formSecurityAgreement(data, t)
      [] type = "bill_of_sale_ucc" -> formBillOfSale(data, t)
      [] OTHER ->
            [markdown |-> <<>>,
             validation |->
                [rule_id |-> "FORM_GEN",
                 passed |-> FALSE,
                 details |-> <<Lit("Unknown form type")>>,
                 evidence_source |-> <<Lit("System")>>,
                 timestamp |-> Timestamp(t)]]

generateVerifiedForm(type, data, t) ==
    CASE type = "promissory_note_ucc" -> formPromissoryNote(data, t)
      [] type = "security_agreement_ucc" -> formSecurityAgreement(data, t)
      [] type = "bill_of_sale_ucc" -> formBillOfSale(data, t)
      [] type = "contractor_agreement" -> formContractorAgreement(data, t)
      [] OTHER ->
            [markdown |-> <<>>,
             validation |->
                [rule_id |-> "FORM_GEN",
                 passed |-> FALSE,
                 details |-> <<Lit("Unknown form type")>>,
                 evidence_source |-> <<Lit("System")>>,
                 timestamp |-> Timestamp(t)]]

---------------------------------------------------------------------------
(* 6. The Policy Gate of the auditor package: isNecessaryEnabled *)

\* JSON texts are sequences of tokens
JsonStrings == {"\"rule_id\"", "\"passed\"", "\"details\"", "\"rule_is_ordinary\"",
                "\"PASSED: ...\"", "\"FAILED: ...\"", "\"true\""}
JsonScalars == JsonStrings \cup {"true", "false", "null"}

\* JSON.stringify of a ValidationStep
JSONstringify(step) ==
    <<"{", "\"rule_id\"", ":", "\"rule_is_ordinary\"", ",",
      "\"passed\"", ":", (IF step.passed THEN "true" ELSE "false"), ",",
      "\"details\"", ":", (IF step.passed THEN "\"PASSED: ...\"" ELSE "\"FAILED: ...\""), "}">>

\* the members of a JSON object: key : scalar, separated by commas; the
\* value of the member "passed" is kept (the last one wins)
RECURSIVE ParseMembers(_, _)
ParseMembers(toks, passed) ==
    IF Len(toks) < 3 \/ toks[1] \notin JsonStrings \/ toks[2] # ":" \/ toks[3] \notin JsonScalars
    THEN [ok |-> FALSE, passed |-> passed]
    ELSE LET p == IF toks[1] = "\"passed\"" THEN toks[3] ELSE passed IN
         IF Len(toks) = 3 THEN [ok |-> TRUE, passed |-> p]
         ELSE IF toks[4] = "," THEN ParseMembers(SubSeq(toks, 5, Len(toks)), p)
         ELSE [ok |-> FALSE, passed |-> p]

\* JSON.parse: the parsed value, or a SyntaxError
JSONparse(toks) ==
    IF Len(toks) = 1 /\ toks[1] \in JsonScalars
    THEN Return([type |-> IF toks[1] = "null" THEN "null" ELSE "scalar", passed |-> "undefined"])
    ELSE IF Len(toks) >= 2 /\ toks[1] = "{" /\ toks[Len(toks)] = "}"
    THEN IF Len(toks) = 2
         THEN Return([type |-> "object", passed |-> "undefined"])
         ELSE LET m == ParseMembers(SubSeq(toks, 2, Len(toks) - 1), "undefined") IN
              IF m.ok THEN Return([type |-> "object", passed |-> m.passed])
              ELSE Throw("SyntaxError")
    ELSE Throw("SyntaxError")

IsOrdinaryResult(item) ==
    item.type = "function_call_result" /\ item.name = "is_ordinary_rule_checker"

\* history.filter(...): the items of the ordinary checker, in order
OrdinaryResults(items) == SelectSeq(items, IsOrdinaryResult)

\* a bug: enabled when any ordinary result passed, not the last one
isNecessaryEnabled_EverPassed(history) ==
    IF ~history.present THEN Return(FALSE)
    ELSE LET results == OrdinaryResults(history.items) IN
         IF \E i \in 1..Len(results) :
                LET output == JSONparse(results[i].output) IN
                output.kind = "return" /\ output.value.passed = "true"
         THEN Return(TRUE)
         ELSE Return(FALSE)

\* isNecessaryEnabled; history?.filter(...).pop() is undefined when the
\* context has no history or no ordinary result
isNecessaryEnabled(history) ==
    IF ~history.present THEN Return(FALSE)
    ELSE LET results == OrdinaryResults(history.items) IN
         IF Len(results) = 0 THEN Return(FALSE)
         ELSE LET ordinaryResult == results[Len(results)]
                  output == JSONparse(ordinaryResult.output)
              IN  IF output.kind = "throw" THEN output
                  ELSE IF output.value.type = "null" THEN Throw("TypeError")
                  ELSE IF output.value.passed = "true" THEN Return(TRUE)
                  ELSE Return(FALSE)

---------------------------------------------------------------------------
(* Inputs of the engine functions *)

\* the first letter in upper case
Capitalize(s) == [i \in 1..Len(s) |-> IF i = 1 THEN UpperChar(s[i]) ELSE s[i]]

NaicsInputs == {CARPENTER_NAICS, "541110"}
ItemStrings == {S_truck, S_hammer, S_saw, S_toolbox, S_work_boots, S_laptop, <<>>}
ItemVariants == {"lower", "upper", "capitalized"}
\* the expense category as typed: the item in one of three letter cases
ItemTyped(base, variant) ==
    CASE variant = "upper" -> toUpperCase(base)
      [] variant = "capitalized" -> Capitalize(base)
      [] OTHER -> base

AmountInputs == (0 - MaxAmount)..MaxAmount

TermsInputs ==
    [promise_type : {"conditional", "unconditional"},
     amount_type : {"fixed", "variable"},
     payable_to : {"bearer", "order", "specific_person"},
     timing : {"demand", "definite", "indefinite"},
     other_undertakings : BOOLEAN]

\* the phrases a clause text is put together from; those at odd places are
\* written in upper case
Phrases == <<P_waive_all_rights, P_waive_jury_trial, P_arbitration, P_indemnify,
             P_hold_harmless, P_gross_negligence, P_perpetuity, P_penalty,
             P_liquidated_damages, P_confession_of_judgment, P_cognovit>>
TextPhrase(i) == IF i % 2 = 1 THEN toUpperCase(Phrases[i]) ELSE Phrases[i]
S_filler == <<"T","h","e"," ","p","a","r","t","i","e","s"," ","a","g","r","e","e",":">>
S_space == <<" ">>

\* the clause text holding the phrases of the set chosen, in the order of Phrases
RECURSIVE ClauseTextFrom(_, _)
ClauseTextFrom(i, chosen) ==
    IF i > Len(Phrases) THEN <<>>
    ELSE (IF i \in chosen THEN S_space \o TextPhrase(i) ELSE <<>>) \o ClauseTextFrom(i + 1, chosen)
ClauseText(chosen) == S_filler \o ClauseTextFrom(1, chosen)

D_service_contract == <<"s","e","r","v","i","c","e","_","c","o","n","t","r","a","c","t">>
D_loan == <<"l","o","a","n">>
D_Service_Agreement == <<"S","e","r","v","i","c","e"," ","A","g","r","e","e","m","e","n","t">>
DocTypeInputs == {D_service_contract, D_loan, D_Service_Agreement}

\* queries handed to consultStatute, each with the place in LibraryKeys of
\* the key a reader of the library finds for it (0: none)
QueryInputs ==
    {[q |-> <<"U","C","C"," ","3","-","1","0","4">>, expect |-> 1],
     [q |-> <<"u","c","c"," ","9","-","2","0","3">>, expect |-> 2],
     [q |-> <<"W","h","a","t"," ","d","o","e","s"," ","U","C","C"," ","2","-","2","0","1"," ","r","e","q","u","i","r","e","?">>, expect |-> 3],
     [q |-> <<"c","r","e","d","i","t">>, expect |-> 4],
     [q |-> <<"U","C","C">>, expect |-> 1],
     [q |-> <<"2">>, expect |-> 2],
     [q |-> <<>>, expect |-> 1],
     [q |-> <<"G","D","P","R">>, expect |-> 0],
     [q |-> <<"U","C","C"," ","9","-","2","0","4">>, expect |-> 0],
     [q |-> <<"f","t","c"," ","c","r","e","d","i","t"," ","r","u","l","e"," ","a","n","d"," ","u","c","c"," ","3","-","1","0","4">>, expect |-> 1],
     [q |-> <<"F","T","C"," ","C","R","E","D","I","T"," ","R","U","L","E">>, expect |-> 4],
     [q |-> <<"3","-","1","0","4">>, expect |-> 1]}

FormTypeInputs == {"promissory_note_ucc", "security_agreement_ucc", "bill_of_sale_ucc",
                   "contractor_agreement", "lease_agreement"}
S_car == <<"c","a","r">>
S_boat == <<"b","o","a","t">>
S_f150 == <<"2","0","1","9"," ","F","o","r","d"," ","F","-","1","5","0">>
S_date == <<"2","0","2","6","-","0","1","-","0","1">>
S_sample == <<"A","c","m","e"," ","L","L","C">>
CollateralInputs == {Undefined, Str(<<>>), Str(S_car), Str(S_boat), Str(S_f150)}
DateInputs == {Undefined, Str(S_date)}

\* the arguments object of draft_verified_form
FormData(collateral, date, others) ==
    [f \in FormFields |->
        CASE f = "collateral" -> collateral
          [] f = "date" -> date
          [] OTHER -> IF others THEN Str(S_sample) ELSE Undefined]

\* items of a run history
MessageItem == [type |-> "message", name |-> "", output |-> <<>>, made |-> "message"]
ResultItem(name, output, made) ==
    [type |-> "function_call_result", name |-> name, output |-> output, made |-> made]
PassStep == [passed |-> TRUE]
FailStep == [passed |-> FALSE]
\* the output of the repository's test of a corrupted JSON
CorruptedOutput == <<"{", "\"passed\"", ":", "true", ",", "\"details\"", ":", "\"corrupted... ">>
HistoryItemInputs ==
    {MessageItem,
     ResultItem("is_ordinary_rule_checker", JSONstringify(PassStep), "pass"),
     ResultItem("is_ordinary_rule_checker", JSONstringify(FailStep), "fail"),
     ResultItem("is_ordinary_rule_checker", <<"{", "\"passed\"", ":", "\"true\"", "}">>, "other"),
     ResultItem("is_ordinary_rule_checker", <<"{", "}">>, "other"),
     ResultItem("is_ordinary_rule_checker", <<"null">>, "null"),
     ResultItem("is_ordinary_rule_checker", CorruptedOutput, "invalid"),
     ResultItem("is_ordinary_rule_checker", SubSeq(JSONstringify(PassStep), 1, 8), "invalid"),
     ResultItem("is_necessary_rule_checker", JSONstringify(PassStep), "pass")}

RECURSIVE SeqsUpTo(_, _)
SeqsUpTo(S, n) ==
    IF n = 0 THEN {<<>>}
    ELSE LET shorter == SeqsUpTo(S, n - 1) IN
         shorter \cup {Append(s, x) : s \in shorter, x \in S}

HistoryInputs ==
    {[present |-> FALSE, items |-> <<>>]}
        \cup {[present |-> TRUE, items |-> h] : h \in SeqsUpTo(HistoryItemInputs, MaxHist)}

---------------------------------------------------------------------------
(* The engine functions called one at a time: SpecEngine *)

\* the state of a run that has not been started
RunIdle ==
    /\ pc = "idle"
    /\ menu = {}
    /\ toolsPolicyState = [ordinaryPassed |-> FALSE]
    /\ offered = {}
    /\ turns = 0
    /\ functionCalls = <<>>
    /\ functionResponses = <<>>
    /\ contents = <<>>
    /\ entries = <<>>
    /\ finalResponseText = ""

NoArg == [none |-> TRUE]

\* no handler of the Advisor or the Studio is running
LedgerIdle ==
    /\ updateQueue = <<>>
    /\ advisor = "idle"
    /\ studio = "idle"
    /\ appended = <<>>
    /\ atReset = <<>>
    /\ lastOp = "none"

\* no invocation is remembered
ReplayIdle == earlier = NoArg

\* no sendLegalMessage run of SpecRuns exists
SessionsIdle == runs = <<>>

\* the application of SpecAdvisor is not there
AdvisorIdle ==
    /\ currentView = "none"
    /\ legalAdvisor = NoArg
    /\ sends = <<>>

RestIdle == ReplayIdle /\ SessionsIdle /\ AdvisorIdle

InitEngine ==
    /\ op = "none"
    /\ arg = NoArg
    /\ ret = NoArg
    /\ now = 0
    /\ RunIdle
    /\ library = ShippedLibrary
    /\ LedgerIdle
    /\ RestIdle

Call(name, a, r) ==
    /\ op = "none"
    /\ op' = name
    /\ arg' = a
    /\ ret' = r
    /\ UNCHANGED now
    /\ UNCHANGED runVars
    /\ UNCHANGED <<library, ledgerVars, restVars>>

CallVerifyOrdinary ==
    \/ \E naics \in NaicsInputs, base \in ItemStrings, variant \in ItemVariants :
            Call("verifyOrdinary",
                 [naics_code |-> naics, base |-> base,
                  expense_item_category |-> Str(ItemTyped(base, variant))],
                 verifyOrdinary(naics, Str(ItemTyped(base, variant)), now))
    \/ \E naics \in NaicsInputs :
            Call("verifyOrdinary",
                 [naics_code |-> naics, base |-> <<>>, expense_item_category |-> Undefined],
                 verifyOrdinary(naics, Undefined, now))

CallVerifyNecessary ==
    \E a \in AmountInputs, b \in AmountInputs :
        Call("verifyNecessary", [expense_amount |-> a, business_revenue |-> b],
             verifyNecessary(a, b, now))

CallVerifyNegotiability ==
    \E terms \in TermsInputs :
        Call("verifyNegotiability", terms, verifyNegotiability(terms, now))

CallAnalyzeContractRisks ==
    \E chosen \in SUBSET (1..Len(Phrases)), docType \in DocTypeInputs :
        Call("analyzeContractRisks",
             [chosen |-> chosen, clauseText |-> ClauseText(chosen), docType |-> docType],
             analyzeContractRisks(ClauseText(chosen), docType, now))

CallGenerateVerifiedForm ==
    \E type \in FormTypeInputs, c \in CollateralInputs, d \in DateInputs, others \in BOOLEAN :
        Call("generateVerifiedForm", [type |-> type, data |-> FormData(c, d, others)],
             Return(generateVerifiedForm(type, FormData(c, d, others), now)))

CallConsultStatute ==
    \E input \in QueryInputs :
        Call("consultStatute", input, Return(consultStatute(input.q)))

CallIsNecessaryEnabled ==
    \E history \in HistoryInputs :
        Call("isNecessaryEnabled", history, isNecessaryEnabled(history))

\* the call has returned (or thrown) to its caller
Finish ==
    /\ op # "none"
    /\ op' = "none"
    /\ arg' = NoArg
    /\ ret' = NoArg
    /\ UNCHANGED now
    /\ UNCHANGED runVars
    /\ UNCHANGED <<library, ledgerVars, restVars>>

\* the clock advances
Tick ==
    /\ op = "none"
    /\ now < MaxClock
    /\ now' = now + 1
    /\ UNCHANGED engineVars
    /\ UNCHANGED runVars
    /\ UNCHANGED <<library, ledgerVars, restVars>>

NextEngine ==
    \/ CallVerifyOrdinary
    \/ CallVerifyNecessary
    \/ CallVerifyNegotiability
    \/ CallAnalyzeContractRisks
    \/ CallGenerateVerifiedForm
    \/ CallIsNecessaryEnabled
    \/ CallConsultStatute
    \/ Finish
    \/ Tick

SpecEngine == InitEngine /\ [][NextEngine]_vars

---------------------------------------------------------------------------
(* The engine functions over a corpus that may lack keys: SpecCorpus.  The *)
(* callers of consultStatute ask for keys the shipped LAW_LIBRARY holds, so *)
(* their fallbacks are reached only with another corpus; here the corpus   *)
(* is any subset of the shipped one.                                       *)

InitCorpus ==
    /\ op = "none"
    /\ arg = NoArg
    /\ ret = NoArg
    /\ now = 0
    /\ RunIdle
    /\ library \in SUBSET ShippedLibrary
    /\ LedgerIdle
    /\ RestIdle

\* analyzeContractRisks on the clause texts that can hold a confession of
\* judgment
CallScanConfession ==
    \E chosen \in SUBSET {3, 8, 10, 11}, docType \in DocTypeInputs :
        Call("analyzeContractRisks",
             [chosen |-> chosen, clauseText |-> ClauseText(chosen), docType |-> docType],
             analyzeContractRisks(ClauseText(chosen), docType, now))

NextCorpus ==
    \/ CallVerifyNegotiability
    \/ CallScanConfession
    \/ CallGenerateVerifiedForm
    \/ CallConsultStatute
    \/ Finish

SpecCorpus == InitCorpus /\ [][NextCorpus]_vars

---------------------------------------------------------------------------
(* 7. The tool loop of sendLegalMessage and the audit ledger: Spec *)

maxTurns == 5

\* AuditProvider: the entry the ledger is created with
GenesisEntry ==
    [action |-> "ArbiterOS Initialization",
     details |-> <<Lit("Governance ledger instantiated. Constitution loaded.")>>,
     source |-> "System",
     status |-> "Verified"]

\* addEntry: setEntries(prev => [newEntry, ...prev])
addEntry(prev, action, details, source, status) ==
    <<[action |-> action, details |-> details, source |-> source, status |-> status]>> \o prev

\* getAllowedTools: the names of the function declarations offered
getAllowedTools(state) ==
    {"verify_ordinary", "verify_negotiability", "analyze_clause_risks",
     "draft_verified_form", "consult_statute"}
        \cup (IF state.ordinaryPassed THEN {"verify_necessary"} ELSE {})

\* name.replace('verify_', '').replace('analyze_', '')
ResultName(name) ==
    CASE name = "verify_ordinary" -> "ordinary"
      [] name = "verify_necessary" -> "necessary"
      [] name = "verify_negotiability" -> "negotiability"
      [] name = "analyze_clause_risks" -> "clause_risks"
      [] OTHER -> name

\* the first logAudit of a branch of the for loop: action, details, source
PendingLog(call) ==
    CASE call.name = "verify_ordinary" ->
            [action |-> "Verification: Ordinary",
             details |-> <<Lit("Checking '"), Val(call.args.expense_item),
                           Lit("' against NAICS "), Lit(call.args.naics_code)>>,
             source |-> "Arbiter"]
      [] call.name = "verify_necessary" ->
            [action |-> "Verification: Necessary",
             details |-> <<Lit("Analyzing financial ratio for $"),
                           Lit(ToString(call.args.expense_amount)), Lit(" expense")>>,
             source |-> "Arbiter"]
      [] call.name = "verify_negotiability" ->
            [action |-> "UCC 3-104 Check",
             details |-> <<Lit("Validating negotiable instrument requirements...")>>,
             source |-> "Arbiter"]
      [] call.name = "analyze_clause_risks" ->
            [action |-> "Risk Analysis",
             details |-> <<Lit("Scanning clause against USC/UCC/Common Law...")>>,
             source |-> "Arbiter"]
      [] call.name = "consult_statute" ->
            [action |-> "Law Library Retrieval",
             details |-> <<Lit("Fetching raw text for '"), Val(Str(call.args.query)), Lit("'")>>,
             source |-> "System"]
      [] call.name = "draft_verified_form" ->
            [action |-> "Form Generation",
             details |-> <<Lit("Drafting validated "), Lit(call.args.form_type), Lit("...")>>,
             source |-> "Arbiter"]

KnownTools == {"verify_ordinary", "verify_necessary", "verify_negotiability",
               "analyze_clause_risks", "consult_statute", "draft_verified_form"}

\* results handed back to the language model
VerdictResult(v) ==
    [kind |-> "verdict", passed |-> v.passed, details |-> v.details, verdict |-> v,
     has_generated_content |-> FALSE, generated_content |-> <<>>]
\* a bug: the markdown is injected whatever the verdict
FormResult_AlwaysContent(form) ==
    [kind |-> "verdict", passed |-> form.validation.passed, details |-> form.validation.details,
     verdict |-> form.validation,
     has_generated_content |-> TRUE,
     generated_content |-> form.markdown]

FormResult(form) ==
    [kind |-> "verdict", passed |-> form.validation.passed, details |-> form.validation.details,
     verdict |-> form.validation,
     has_generated_content |-> form.validation.passed,
     generated_content |-> IF form.validation.passed THEN form.markdown ELSE <<>>]
StatuteResult(st) ==
    [kind |-> "statute", passed |-> FALSE, details |-> <<Lit("undefined")>>, verdict |-> st,
     has_generated_content |-> FALSE, generated_content |-> <<>>]
EmptyResult ==
    [kind |-> "empty", passed |-> FALSE, details |-> <<Lit("undefined")>>, verdict |-> NoArg,
     has_generated_content |-> FALSE, generated_content |-> <<>>]
ErrorResult(message) ==
    [kind |-> "error", passed |-> FALSE, details |-> <<Lit("undefined")>>,
     verdict |-> [error |-> message],
     has_generated_content |-> FALSE, generated_content |-> <<>>]

\* the try block of the for loop up to the result: what the checker of the
\* call returned or threw
RunTool(call, t) ==
    CASE call.name = "verify_ordinary" ->
            verifyOrdinary(call.args.naics_code, call.args.expense_item, t)
      [] call.name = "verify_necessary" ->
            verifyNecessary(call.args.expense_amount, call.args.business_revenue, t)
      [] call.name = "verify_negotiability" -> verifyNegotiability(call.args, t)
      [] call.name = "analyze_clause_risks" ->
            analyzeContractRisks(call.args.clause_text, call.args.doc_type, t)
      [] call.name = "consult_statute" -> Return(consultStatute(call.args.query))
      [] call.name = "draft_verified_form" ->
            Return(generateVerifiedForm(call.args.form_type, call.args.data, t))
      [] OTHER -> Return(NoArg)

\* result, as the try block leaves it when nothing throws
ResultOf(call, r) ==
    CASE call.name = "consult_statute" -> StatuteResult(r.value)
      [] call.name = "draft_verified_form" -> FormResult(r.value)
      [] call.name \in KnownTools -> VerdictResult(r.value)
      [] OTHER -> EmptyResult

\* a bug: the gate opens on any verify_ordinary call, thrown or not
PolicyAfter_OnAnyOrdinary(state, call, r) ==
    IF call.name = "verify_ordinary"
    THEN [state EXCEPT !.ordinaryPassed = TRUE]
    ELSE state

\* if (result.passed) toolsPolicyState.ordinaryPassed = true
PolicyAfter(state, call, r) ==
    IF call.name = "verify_ordinary" /\ r.kind = "return" /\ r.value.passed
    THEN [state EXCEPT !.ordinaryPassed = TRUE]
    ELSE state

\* a bug: the result entry is always Verified
LedgerAfter_AlwaysVerified(prev, call, r) ==
    LET pending == IF call.name \in KnownTools
                   THEN addEntry(prev, PendingLog(call).action, PendingLog(call).details,
                                 PendingLog(call).source, "Pending")
                   ELSE prev
    IN  IF r.kind = "throw"
        THEN addEntry(pending, "Verification Error",
                      <<Lit("Tool execution failed: "), Lit(r.error)>>, "System", "Error")
        ELSE IF call.name # "consult_statute"
        THEN addEntry(pending, "Result: " \o ResultName(call.name),
                      ResultOf(call, r).details, "Arbiter", "Verified")
        ELSE pending

\* the logAudit calls of one pass of the for loop
LedgerAfter(prev, call, r) ==
    LET pending == IF call.name \in KnownTools
                   THEN addEntry(prev, PendingLog(call).action, PendingLog(call).details,
                                 PendingLog(call).source, "Pending")
                   ELSE prev
    IN  IF r.kind = "throw"
        THEN addEntry(pending, "Verification Error",
                      <<Lit("Tool execution failed: "), Lit(r.error)>>, "System", "Error")
        ELSE IF call.name # "consult_statute"
        THEN addEntry(pending, "Result: " \o ResultName(call.name),
                      ResultOf(call, r).details, "Arbiter",
                      IF ResultOf(call, r).passed THEN "Verified" ELSE "Error")
        ELSE pending

\* the object pushed onto functionResponses: { id, name, response: { result } }
FunctionResponse(call, r) ==
    [id |-> call.id, name |-> call.name,
     response |-> [result |-> IF r.kind = "throw" THEN ErrorResult(r.error)
                              ELSE ResultOf(call, r)]]

\* a bug: the new element is put in front
push_Unshift(list, x) == <<x>> \o list

\* Array.prototype.push
push(list, x) == Append(list, x)

\* functionResponses.map(fr => ({ functionResponse: fr }))
toolResponseParts(responses) ==
    [i \in 1..Len(responses) |-> [functionResponse |-> responses[i]]]

\* tool calls the language model may ask for
ToolCall(name, args) == [name |-> name, args |-> args]
S_cognovit_clause == <<"B","o","r","r","o","w","e","r"," ","s","i","g","n","s"," ","a"," ","C","O","G","N","O","V","I","T"," ","n","o","t","e"," ","a","n","d"," ","a","g","r","e","e","s"," ","t","o"," ","a","r","b","i","t","r","a","t","i","o","n">>

MenuExpense ==
    {ToolCall("verify_ordinary", [naics_code |-> CARPENTER_NAICS, expense_item |-> Str(S_truck)]),
     ToolCall("verify_ordinary", [naics_code |-> CARPENTER_NAICS, expense_item |-> Str(S_laptop)]),
     ToolCall("verify_necessary", [expense_amount |-> 3, business_revenue |-> 7])}
MenuFaults ==
    {ToolCall("verify_ordinary", [naics_code |-> CARPENTER_NAICS, expense_item |-> Undefined]),
     ToolCall("verify_ordinary", [naics_code |-> CARPENTER_NAICS, expense_item |-> Str(S_saw)]),
     ToolCall("summarize", NoArg)}
MenuDocuments ==
    {ToolCall("draft_verified_form",
              [form_type |-> "security_agreement_ucc",
               data |-> FormData(Str(S_boat), Undefined, FALSE)]),
     ToolCall("draft_verified_form",
              [form_type |-> "security_agreement_ucc",
               data |-> FormData(Str(<<>>), Undefined, FALSE)]),
     ToolCall("consult_statute", [query |-> K_UCC_9_203])}
MenuInstruments ==
    {ToolCall("verify_negotiability",
              [promise_type |-> "conditional", amount_type |-> "fixed", payable_to |-> "order",
               timing |-> "indefinite", other_undertakings |-> FALSE]),
     ToolCall("analyze_clause_risks",
              [clause_text |-> S_cognovit_clause, doc_type |-> D_loan]),
     ToolCall("verify_necessary", [expense_amount |-> 4, business_revenue |-> 7])}
Menus == {MenuExpense, MenuFaults, MenuDocuments, MenuInstruments}

\* a part of the conversation that carries a function response
IsResponsePart(part) == "functionResponse" \in DOMAIN part

\* the function responses handed back so far in the run, oldest first
RECURSIVE ResponsesIn(_)
ResponsesIn(cs) ==
    IF Len(cs) = 0 THEN <<>>
    ELSE [i \in 1..Len(SelectSeq(cs[1].parts, IsResponsePart)) |->
              SelectSeq(cs[1].parts, IsResponsePart)[i].functionResponse]
            \o ResponsesIn(Tail(cs))
AllResponses == ResponsesIn(contents) \o functionResponses

Init ==
    /\ op = "none"
    /\ arg = NoArg
    /\ ret = NoArg
    /\ now = 0
    /\ pc = "generateContent"
    /\ menu \in Menus
    /\ toolsPolicyState = [ordinaryPassed |-> FALSE]
    /\ offered = getAllowedTools([ordinaryPassed |-> FALSE])
    /\ turns = 0
    /\ functionCalls = <<>>
    /\ functionResponses = <<>>
    /\ contents = <<[role |-> "user", parts |-> <<[text |-> "newMessage"]>>]>>
    /\ entries = <<GenesisEntry>>
    /\ finalResponseText = ""
    /\ library = ShippedLibrary
    /\ LedgerIdle
    /\ RestIdle

\* the response of generateContent holds function calls and the loop runs
\* once more
ModelRequestsTools ==
    /\ pc = "generateContent"
    /\ turns < maxTurns
    /\ \E batch \in SeqsUpTo(menu, MaxCalls - Len(AllResponses)) \ {<<>>} :
          functionCalls' =
              [i \in 1..Len(batch) |->
                  [id |-> <<turns + 1, i>>, name |-> batch[i].name, args |-> batch[i].args]]
    /\ turns' = turns + 1
    /\ functionResponses' = <<>>
    /\ entries' = addEntry(entries, "Covenant Protocol",
                           <<Lit("Initiating verifiable law check...")>>, "System", "Pending")
    /\ pc' = "forLoop"
    /\ UNCHANGED <<menu, toolsPolicyState, offered, contents, finalResponseText>>
    /\ UNCHANGED <<engineVars, now>>
    /\ UNCHANGED <<library, ledgerVars, restVars>>

\* one pass of the for loop over functionCalls
ExecuteCall ==
    /\ pc = "forLoop"
    /\ Len(functionResponses) < Len(functionCalls)
    /\ LET call == functionCalls[Len(functionResponses) + 1]
           r == RunTool(call, now)
       IN  /\ toolsPolicyState' = PolicyAfter(toolsPolicyState, call, r)
           /\ entries' = LedgerAfter(entries, call, r)
           /\ functionResponses' = push(functionResponses, FunctionResponse(call, r))
    /\ UNCHANGED <<pc, menu, offered, turns, functionCalls, contents, finalResponseText>>
    /\ UNCHANGED <<engineVars, now>>
    /\ UNCHANGED <<library, ledgerVars, restVars>>

\* after the for loop: the model's turn and the tool responses are pushed
\* and generateContent is called with getAllowedTools()
SendToolResponses ==
    /\ pc = "forLoop"
    /\ Len(functionResponses) = Len(functionCalls)
    /\ contents' = push(push(contents, [role |-> "model", parts |-> functionCalls]),
                         [role |-> "user", parts |-> toolResponseParts(functionResponses)])
    /\ offered' = getAllowedTools(toolsPolicyState)
    /\ functionCalls' = <<>>
    /\ functionResponses' = <<>>
    /\ pc' = "generateContent"
    /\ UNCHANGED <<menu, toolsPolicyState, turns, entries, finalResponseText>>
    /\ UNCHANGED <<engineVars, now>>
    /\ UNCHANGED <<library, ledgerVars, restVars>>

\* response.text || "The Governance Ledger has been updated."
FinalText(text) == IF text = "" THEN "The Governance Ledger has been updated." ELSE text

\* the response holds no function call: the loop ends
ModelAnswers ==
    /\ pc = "generateContent"
    /\ \E text \in {"", "counsel"} : finalResponseText' = FinalText(text)
    /\ pc' = "done"
    /\ UNCHANGED <<menu, toolsPolicyState, offered, turns, functionCalls, functionResponses,
                   contents, entries>>
    /\ UNCHANGED <<engineVars, now>>
    /\ UNCHANGED <<library, ledgerVars, restVars>>

\* the response holds function calls after maxTurns batches: they are not
\* executed and the loop ends
ModelHitsTurnLimit ==
    /\ pc = "generateContent"
    /\ turns >= maxTurns
    /\ \E call \in menu, text \in {"", "counsel"} : finalResponseText' = FinalText(text)
    /\ pc' = "done"
    /\ UNCHANGED <<menu, toolsPolicyState, offered, turns, functionCalls, functionResponses,
                   contents, entries>>
    /\ UNCHANGED <<engineVars, now>>
    /\ UNCHANGED <<library, ledgerVars, restVars>>

Next ==
    \/ ModelRequestsTools
    \/ ExecuteCall
    \/ SendToolResponses
    \/ ModelAnswers
    \/ ModelHitsTurnLimit

Spec == Init /\ [][Next]_vars

---------------------------------------------------------------------------
(* The audit ledger of AuditProvider, written to by the Advisor, its tool  *)
(* loop and the Studio: SpecLedger.  setEntries queues an update; React    *)
(* processes the queue, in the order of the calls, before the next render  *)
(* reads the state.  Entries carry every field but metadata.  (Spec follows *)
(* one run with the action, details, source and status of each entry.)     *)

\* the outcomes of the two Math.random() calls of one entry: the tail of
\* the id and the tail of the hash.  Nothing in the program reads them, and
\* one sample stands for all.
RandomTails == {[id |-> "k3x9q", hash |-> "1f0a9c3e"]}

\* generateHash: the text hashed and the random tail
generateHash(str, tail) == [of |-> str, tail |-> tail]

\* the useState initializer of AuditProvider
GenesisAuditEntry(r) ==
    [id |-> <<"genesis">>,
     timestamp |-> Timestamp(0),
     action |-> "ArbiterOS Initialization",
     details |-> <<Lit("Governance ledger instantiated. Constitution loaded.")>>,
     source |-> "System",
     status |-> "Verified",
     hash |-> generateHash(<<"genesis-block-governance">>, r.hash)]

\* addEntry: the object literal newEntry
newEntry(action, details, source, status, t, r) ==
    [id |-> <<ToString(t), r.id>>,
     timestamp |-> Timestamp(t),
     action |-> action,
     details |-> details,
     source |-> source,
     status |-> status,
     hash |-> generateHash(<<action, ToString(t)>>, r.hash)]

\* clearLog: the synthetic entry
RebootEntry(t, r) ==
    [id |-> <<"reboot-", ToString(t)>>,
     timestamp |-> Timestamp(t),
     action |-> "System Reboot",
     details |-> <<Lit("Audit Ledger flushed by user command. Clean state initialized.")>>,
     source |-> "System",
     status |-> "Verified",
     hash |-> generateHash(<<"reboot-", ToString(t)>>, r.hash)]

\* a bug: setEntries([newEntry, ...entries]) with the entries of the render
\* the handler was created in
enqueueAddEntry_StaleState(queue, committed, e) ==
    Append(queue, [kind |-> "value", value |-> <<e>> \o committed])

\* addEntry: setEntries(prev => [newEntry, ...prev])
enqueueAddEntry(queue, committed, e) ==
    Append(queue, [kind |-> "updater", value |-> <<e>>])

\* a bug: the reboot entry is put in front of the entries kept
enqueueClearLog_KeepsEntries(queue, e) ==
    Append(queue, [kind |-> "updater", value |-> <<e>>])

\* a bug: the ledger is emptied and no entry marks the reset
enqueueClearLog_Empty(queue, e) ==
    Append(queue, [kind |-> "value", value |-> <<>>])

\* clearLog: setEntries([rebootEntry])
enqueueClearLog(queue, e) ==
    Append(queue, [kind |-> "value", value |-> <<e>>])

\* a bug: the new entry is put at the end
applyUpdate_AtTail(prev, u) ==
    IF u.kind = "updater" THEN prev \o u.value ELSE u.value

\* a bug: only the two newest entries are kept
applyUpdate_Capped(prev, u) ==
    IF u.kind = "updater" THEN SubSeq(u.value \o prev, 1, 2) ELSE u.value

\* React applies one queued update to the state: an updater function is
\* called with the previous state, a value replaces it
applyUpdate(prev, u) ==
    IF u.kind = "updater" THEN u.value \o prev ELSE u.value

\* the queue is processed in the order of the calls
RECURSIVE processQueue(_, _)
processQueue(state, queue) ==
    IF Len(queue) = 0 THEN state
    ELSE processQueue(applyUpdate(state, Head(queue)), Tail(queue))

\* what a reader of the ledger gets: useAudit().entries of the render that
\* follows the calls made so far
Ledger == processQueue(entries, updateQueue)

InitLedger ==
    /\ op = "none"
    /\ arg = NoArg
    /\ ret = NoArg
    /\ now = 0
    /\ pc = "idle"
    /\ menu = {}
    /\ toolsPolicyState = [ordinaryPassed |-> FALSE]
    /\ offered = {}
    /\ turns = 0
    /\ functionCalls = <<>>
    /\ functionResponses = <<>>
    /\ contents = <<>>
    /\ finalResponseText = ""
    /\ library = ShippedLibrary
    /\ \E r \in RandomTails : entries = <<GenesisAuditEntry(r)>>
    /\ updateQueue = <<>>
    /\ advisor = "idle"
    /\ studio = "idle"
    /\ appended = <<>>
    /\ atReset = entries
    /\ lastOp = "none"
    /\ RestIdle

\* what no handler of the ledger touches
LedgerFrame ==
    UNCHANGED <<op, arg, ret, now, pc, menu, toolsPolicyState, offered, turns, functionCalls,
                functionResponses, contents, finalResponseText, library>>
    /\ UNCHANGED restVars

\* one call of addEntry
AddEntryCall(action, details, source, status) ==
    /\ Len(appended) < MaxAppends
    /\ Len(updateQueue) < MaxPending
    /\ \E r \in RandomTails :
          LET e == newEntry(action, details, source, status, now, r) IN
          /\ updateQueue' = enqueueAddEntry(updateQueue, entries, e)
          /\ appended' = Append(appended, e)
    /\ lastOp' = "addEntry"
    /\ UNCHANGED <<entries, atReset>>
    /\ LedgerFrame

\* handleSend up to the call of sendLegalMessage
HandleSend ==
    /\ advisor = "idle"
    /\ AddEntryCall("Eye Witness Input", <<Lit("textToSend")>>, "Advisor", "Pending")
    /\ advisor' = "sending"
    /\ UNCHANGED studio

\* the entries sendLegalMessage logs through logAudit, which is addEntry
ToolLoopLogs ==
    {[action |-> "Covenant Protocol", details |-> <<Lit("Initiating verifiable law check...")>>,
      source |-> "System", status |-> "Pending"],
     [action |-> "Verification Error", details |-> <<Lit("Tool execution failed: "), Lit("TypeError")>>,
      source |-> "System", status |-> "Error"]}

LogAudit ==
    /\ advisor = "sending"
    /\ \E l \in ToolLoopLogs : AddEntryCall(l.action, l.details, l.source, l.status)
    /\ UNCHANGED <<advisor, studio>>

\* handleSend after sendLegalMessage and runArbiterAudit returned
CounselDispensed ==
    /\ advisor = "sending"
    /\ \E status \in {"Verified", "Refining"} :
          AddEntryCall("Counsel Dispensed", <<Lit("Audit Score: "), Lit("score"), Lit("%")>>,
                       "Arbiter", status)
    /\ advisor' = "idle"
    /\ UNCHANGED studio

\* handleSend: the catch block
SystemInterrupt ==
    /\ advisor = "sending"
    /\ AddEntryCall("System Interrupt", <<Lit("Failed to retrieve legal counsel")>>,
                    "System", "Error")
    /\ advisor' = "idle"
    /\ UNCHANGED studio

\* processFiles, once the files are read
ProcessFiles ==
    /\ AddEntryCall("Evidence Ingestion", <<Lit("Ingested "), Lit("n"), Lit(" artifacts")>>,
                    "Advisor", "Verified")
    /\ UNCHANGED <<advisor, studio>>

\* handleReset: clearLog
HandleReset ==
    /\ Len(updateQueue) < MaxPending
    /\ \E r \in RandomTails :
          /\ updateQueue' = enqueueClearLog(updateQueue, RebootEntry(now, r))
          /\ atReset' = <<RebootEntry(now, r)>>
    /\ appended' = <<>>
    /\ lastOp' = "clearLog"
    /\ UNCHANGED <<entries, advisor, studio>>
    /\ LedgerFrame

\* handleGenerate up to the call of generateContractImage
HandleGenerate ==
    /\ studio = "idle"
    /\ AddEntryCall("Visual Concept Request", <<Lit("Synthesizing abstraction for "), Lit("conceptType")>>,
                    "Studio", "Verified")
    /\ studio' = "generating"
    /\ UNCHANGED advisor

\* handleGenerate: the image came back
ConceptRendered ==
    /\ studio = "generating"
    /\ AddEntryCall("Concept Rendered",
                    <<Lit("conceptType"), Lit(" visualization generated successfully")>>,
                    "Studio", "Verified")
    /\ studio' = "idle"
    /\ UNCHANGED advisor

\* handleGenerate: the catch block
RenderError ==
    /\ studio = "generating"
    /\ AddEntryCall("Render Error", <<Lit("Visualization failed")>>, "Studio", "Error")
    /\ studio' = "idle"
    /\ UNCHANGED advisor

\* React renders AuditProvider: the queued updates become the state
Render ==
    /\ updateQueue # <<>>
    /\ entries' = processQueue(entries, updateQueue)
    /\ updateQueue' = <<>>
    /\ UNCHANGED <<advisor, studio, appended, atReset, lastOp>>
    /\ LedgerFrame

NextLedger ==
    \/ HandleSend
    \/ LogAudit
    \/ CounselDispensed
    \/ SystemInterrupt
    \/ ProcessFiles
    \/ HandleReset
    \/ HandleGenerate
    \/ ConceptRendered
    \/ RenderError
    \/ Render

SpecLedger == InitLedger /\ [][NextLedger]_vars

---------------------------------------------------------------------------
(* Two sendLegalMessage runs side by side, each with its own locals, followed *)
(* from await to await: SpecRuns.  A run may be started again once it ended. *)

Runs == {1, 2}

\* the calls the language model asks for in SpecRuns: an ordinary item, and
\* a call without expense_item, on which verifyOrdinary throws
SessionMenu ==
    {ToolCall("verify_ordinary", [naics_code |-> CARPENTER_NAICS, expense_item |-> Str(S_saw)]),
     ToolCall("verify_ordinary", [naics_code |-> CARPENTER_NAICS, expense_item |-> Undefined])}

\* a bug: toolsPolicyState is declared outside sendLegalMessage, one object
\* for all runs
PolicyStateAt_Shared(rs, r) ==
    [ordinaryPassed |-> \E q \in DOMAIN rs : rs[q].toolsPolicyState.ordinaryPassed]

\* let toolsPolicyState: a local of the call of sendLegalMessage
PolicyStateAt(rs, r) == rs[r].toolsPolicyState

\* a bug: the bound is off by one and a sixth batch is executed
whileCondition_OffByOne(calls, t) == Len(calls) > 0 /\ t <= maxTurns

\* while (response.functionCalls && response.functionCalls.length > 0 && turns < maxTurns)
whileCondition(calls, t) == Len(calls) > 0 /\ t < maxTurns

\* a bug: the checkers of a batch are started without awaiting the one before
awaited_NotAwaited(inFlight) == TRUE

\* result = await ...: the loop goes on when the call it started has settled
awaited(inFlight) == inFlight = {}

\* the locals of a run before sendLegalMessage is called
NoRun ==
    [pc |-> "none", toolsPolicyState |-> [ordinaryPassed |-> FALSE], offered |-> {},
     turns |-> 0, functionCalls |-> <<>>, functionResponses |-> <<>>, inFlight |-> {},
     made |-> FALSE, refused |-> FALSE, finalResponseText |-> ""]

\* sendLegalMessage up to the first generateContent
NewRun ==
    [NoRun EXCEPT !.pc = "generateContent"]

InitRuns ==
    /\ op = "none"
    /\ arg = NoArg
    /\ ret = NoArg
    /\ now = 0
    /\ RunIdle
    /\ library = ShippedLibrary
    /\ LedgerIdle
    /\ ReplayIdle
    /\ AdvisorIdle
    /\ runs = [r \in Runs |-> NoRun]

RunsFrame ==
    /\ UNCHANGED <<engineVars, now, runVars, library, ledgerVars>>
    /\ UNCHANGED <<earlier, currentView, legalAdvisor, sends>>

\* a call of sendLegalMessage: the first generateContent gets getAllowedTools()
StartRun(r) ==
    /\ runs[r].pc \in {"none", "done"}
    /\ LET started == [runs EXCEPT ![r] = NewRun] IN
       runs' = [started EXCEPT ![r].offered = getAllowedTools(PolicyStateAt(started, r))]
    /\ RunsFrame

\* the response holds function calls and the loop runs once more
RunRequestsTools(r) ==
    /\ runs[r].pc = "generateContent"
    /\ \E batch \in SeqsUpTo(SessionMenu, MaxBatch) :
          /\ whileCondition(batch, runs[r].turns)
          /\ runs' = [runs EXCEPT
                ![r].turns = @ + 1,
                ![r].functionCalls =
                    [i \in 1..Len(batch) |->
                        [id |-> <<runs[r].turns + 1, i>>, name |-> batch[i].name,
                         args |-> batch[i].args]],
                ![r].functionResponses = <<>>,
                ![r].pc = "forLoop"]
    /\ RunsFrame

\* the for loop reaches a call and starts its checker
StartChecker(r) ==
    /\ runs[r].pc = "forLoop"
    /\ LET i == Len(runs[r].functionResponses) + Cardinality(runs[r].inFlight) + 1 IN
       /\ i <= Len(runs[r].functionCalls)
       /\ awaited(runs[r].inFlight)
       /\ runs' = [runs EXCEPT ![r].inFlight = @ \cup {i}]
    /\ RunsFrame

\* a checker returns or throws and the loop pushes the function response
FinishChecker(r) ==
    /\ runs[r].pc = "forLoop"
    /\ \E i \in runs[r].inFlight :
          LET call == runs[r].functionCalls[i]
              res == RunTool(call, now)
          IN  runs' = [runs EXCEPT
                ![r].toolsPolicyState = PolicyAfter(@, call, res),
                ![r].functionResponses = push(@, FunctionResponse(call, res)),
                ![r].inFlight = @ \ {i},
                ![r].made = @ \/ (call.args.expense_item = Str(S_saw))]
    /\ RunsFrame

\* after the for loop: generateContent is called with getAllowedTools()
RunSendsToolResponses(r) ==
    /\ runs[r].pc = "forLoop"
    /\ Len(runs[r].functionResponses) = Len(runs[r].functionCalls)
    /\ runs' = [runs EXCEPT
            ![r].offered = getAllowedTools(PolicyStateAt(runs, r)),
            ![r].functionCalls = <<>>,
            ![r].functionResponses = <<>>,
            ![r].pc = "generateContent"]
    /\ RunsFrame

\* the while condition is false: the loop ends, with the calls of the last
\* response, if any, not executed
RunEnds(r) ==
    /\ runs[r].pc = "generateContent"
    /\ \E batch \in SeqsUpTo(SessionMenu, 1), text \in {"", "counsel"} :
          /\ ~whileCondition(batch, runs[r].turns)
          /\ runs' = [runs EXCEPT
                ![r].refused = Len(batch) > 0,
                ![r].finalResponseText = FinalText(text),
                ![r].pc = "done"]
    /\ RunsFrame

\* what a run does once it was called
RunStep(r) ==
    \/ RunRequestsTools(r)
    \/ StartChecker(r)
    \/ FinishChecker(r)
    \/ RunSendsToolResponses(r)
    \/ RunEnds(r)

NextRuns ==
    \E r \in Runs :
        \/ StartRun(r)
        \/ RunStep(r)

SpecRuns == InitRuns /\ [][NextRuns]_vars

\* one run on its own, in which every model call and every checker call
\* returns
NextOneRun ==
    \/ StartRun(1)
    \/ RunStep(1)

SpecOneRunFair == InitRuns /\ [][NextOneRun]_vars /\ WF_vars(RunStep(1))

---------------------------------------------------------------------------
(* The four rule checkers called again and again, with one invocation and  *)
(* what it returned kept for comparison: SpecReplay.                       *)

S_clean_clause == <<"P","a","y","m","e","n","t"," ","i","s"," ","d","u","e"," ","i","n"," ","3","0"," ","d","a","y","s">>

\* invocations of the checkers, with typed arguments
ReplayInputs ==
    {[op |-> "verifyOrdinary",
      arg |-> [naics_code |-> CARPENTER_NAICS, expense_item_category |-> Str(S_truck)]],
     [op |-> "verifyOrdinary",
      arg |-> [naics_code |-> CARPENTER_NAICS, expense_item_category |-> Str(S_laptop)]],
     [op |-> "verifyOrdinary",
      arg |-> [naics_code |-> "541110", expense_item_category |-> Str(S_truck)]],
     [op |-> "verifyNecessary", arg |-> [expense_amount |-> 3, business_revenue |-> 7]],
     [op |-> "verifyNecessary", arg |-> [expense_amount |-> 4, business_revenue |-> 7]],
     [op |-> "verifyNecessary", arg |-> [expense_amount |-> 3, business_revenue |-> 0]],
     [op |-> "verifyNegotiability",
      arg |-> [promise_type |-> "unconditional", amount_type |-> "fixed", payable_to |-> "order",
               timing |-> "demand", other_undertakings |-> FALSE]],
     [op |-> "verifyNegotiability",
      arg |-> [promise_type |-> "conditional", amount_type |-> "fixed", payable_to |-> "order",
               timing |-> "indefinite", other_undertakings |-> TRUE]],
     [op |-> "analyzeContractRisks", arg |-> [clauseText |-> S_cognovit_clause, docType |-> D_loan]],
     [op |-> "analyzeContractRisks", arg |-> [clauseText |-> S_clean_clause, docType |-> D_loan]]}

\* the checker of an invocation, called at time t
CheckerCall(c, t) ==
    CASE c.op = "verifyOrdinary" ->
            verifyOrdinary(c.arg.naics_code, c.arg.expense_item_category, t)
      [] c.op = "verifyNecessary" ->
            verifyNecessary(c.arg.expense_amount, c.arg.business_revenue, t)
      [] c.op = "verifyNegotiability" -> verifyNegotiability(c.arg, t)
      [] c.op = "analyzeContractRisks" ->
            analyzeContractRisks(c.arg.clauseText, c.arg.docType, t)

InitReplay ==
    /\ op = "none"
    /\ arg = NoArg
    /\ ret = NoArg
    /\ now = 0
    /\ RunIdle
    /\ library = ShippedLibrary
    /\ LedgerIdle
    /\ SessionsIdle
    /\ AdvisorIdle
    /\ earlier = NoArg

ReplayFrame ==
    /\ UNCHANGED <<runVars, library, ledgerVars>>
    /\ UNCHANGED <<runs, currentView, legalAdvisor, sends>>

\* a checker is called; a call that differs from the one kept counts as a
\* call in between
ReplayCall ==
    /\ op = "none"
    /\ \E c \in ReplayInputs :
          /\ op' = c.op
          /\ arg' = c.arg
          /\ ret' = CheckerCall(c, now)
          /\ earlier' = IF "op" \in DOMAIN earlier /\ (earlier.op # c.op \/ earlier.arg # c.arg)
                        THEN [earlier EXCEPT !.between = TRUE]
                        ELSE earlier
    /\ UNCHANGED now
    /\ ReplayFrame

\* the invocation that has just returned is kept
ReplayKeep ==
    /\ op # "none"
    /\ earlier = NoArg
    /\ earlier' = [op |-> op, arg |-> arg, ret |-> ret, at |-> now, between |-> FALSE]
    /\ op' = "none"
    /\ arg' = NoArg
    /\ ret' = NoArg
    /\ UNCHANGED now
    /\ ReplayFrame

ReplayFinish ==
    /\ op # "none"
    /\ op' = "none"
    /\ arg' = NoArg
    /\ ret' = NoArg
    /\ UNCHANGED <<now, earlier>>
    /\ ReplayFrame

ReplayTick ==
    /\ op = "none"
    /\ now < MaxClock
    /\ now' = now + 1
    /\ UNCHANGED <<engineVars, earlier>>
    /\ ReplayFrame

NextReplay ==
    \/ ReplayCall
    \/ ReplayKeep
    \/ ReplayFinish
    \/ ReplayTick

SpecReplay == InitReplay /\ [][NextReplay]_vars

---------------------------------------------------------------------------
(* 7d. The LegalAdvisor component and the critic: SpecAdvisor *)

\* the answers of the critic are JSON texts: sequences of tokens
CriticNumbers == {"0", "0.8", "0.81", "-0.1"}
CriticStrings == {"\"score\"", "\"critique\"", "\"notes\""}
CriticScalars == CriticNumbers \cup CriticStrings \cup {"null"}

\* a parsed number, in hundredths
NumberOf(tok) ==
    CASE tok = "0" -> 0
      [] tok = "0.8" -> 80
      [] tok = "0.81" -> 81
      [] tok = "-0.1" -> -10

\* the JavaScript value of a JSON scalar
ScalarOf(tok) ==
    IF tok \in CriticNumbers THEN [t |-> "number", n |-> NumberOf(tok)]
    ELSE IF tok = "null" THEN [t |-> "null", n |-> 0]
    ELSE [t |-> "string", n |-> 0]

NoMember == [t |-> "undefined", n |-> 0]

\* the members of the critic's JSON object; of a repeated key the last wins
RECURSIVE ParseCriticMembers(_, _)
ParseCriticMembers(toks, acc) ==
    IF Len(toks) < 3 \/ toks[1] \notin CriticStrings \/ toks[2] # ":" \/ toks[3] \notin CriticScalars
    THEN [ok |-> FALSE, members |-> acc]
    ELSE LET a == IF toks[1] = "\"score\"" THEN [acc EXCEPT !.score = ScalarOf(toks[3])]
                  ELSE IF toks[1] = "\"critique\"" THEN [acc EXCEPT !.critique = ScalarOf(toks[3])]
                  ELSE acc IN
         IF Len(toks) = 3 THEN [ok |-> TRUE, members |-> a]
         ELSE IF toks[4] = "," THEN ParseCriticMembers(SubSeq(toks, 5, Len(toks)), a)
         ELSE [ok |-> FALSE, members |-> a]

\* JSON.parse of the critic's text: the parsed value, or a SyntaxError
JSONparseCritic(toks) ==
    LET none == [score |-> NoMember, critique |-> NoMember] IN
    IF Len(toks) = 1 /\ toks[1] \in CriticScalars
    THEN Return([type |-> IF toks[1] = "null" THEN "null" ELSE "scalar", members |-> none])
    ELSE IF Len(toks) >= 2 /\ toks[1] = "{" /\ toks[Len(toks)] = "}"
    THEN IF Len(toks) = 2
         THEN Return([type |-> "object", members |-> none])
         ELSE LET m == ParseCriticMembers(SubSeq(toks, 2, Len(toks) - 1), none) IN
              IF m.ok THEN Return([type |-> "object", members |-> m.members])
              ELSE Throw("SyntaxError")
    ELSE Throw("SyntaxError")

\* JavaScript truthiness of a parsed member
TruthyMember(v) == (v.t = "number" /\ v.n # 0) \/ v.t = "string"

\* the try block of runArbiterAudit: generateContent, JSON.parse and the
\* two fallbacks; reading a member of null is a TypeError
auditTry(answer) ==
    IF answer.kind = "throw" THEN answer
    ELSE LET text == IF Len(answer.value) = 0 THEN <<"{", "}">> ELSE answer.value
             result == JSONparseCritic(text) IN
         IF result.kind = "throw" THEN result
         ELSE IF result.value.type = "null" THEN Throw("TypeError")
         ELSE LET m == result.value.members IN
              Return([score |-> IF TruthyMember(m.score) THEN m.score.n ELSE 95,
                      critique |-> IF TruthyMember(m.critique) THEN "critique"
                                   ELSE "Verified compliant."])

\* the catch block reports a score of 0
runArbiterAudit_ZeroOnFailure(answer) ==
    LET r == auditTry(answer) IN
    IF r.kind = "throw" THEN Return([score |-> 0, critique |-> "Audit bypass: System optimal."])
    ELSE r

\* runArbiterAudit: the try block, and the catch block's bypass
runArbiterAudit(answer) ==
    LET r == auditTry(answer) IN
    IF r.kind = "throw" THEN Return([score |-> 100, critique |-> "Audit bypass: System optimal."])
    ELSE r

\* auditResult.score > 0.8 ? 'Verified' : 'Refining'
CounselStatus(score) == IF score > 80 THEN "Verified" ELSE "Refining"

\* what the critic's generateContent call may do
CriticAnswers ==
    {Throw("ApiError"),
     Return(<<>>),
     Return(<<"{", "}">>),
     Return(<<"null">>),
     Return(<<"0.8">>),
     Return(<<"{", "\"score\"", ":", "0.8">>),
     Return(<<"{", "\"critique\"", ":", "\"notes\"", "}">>),
     Return(<<"{", "\"score\"", ":", "null", "}">>)}
        \cup {Return(<<"{", "\"score\"", ":", n, ",", "\"critique\"", ":", "\"notes\"", "}">>) :
                 n \in CriticNumbers}

\* textToSend.trim()
Trim(text) == IF text = " " THEN "" ELSE text

InputTexts == {"", " ", "q"}
TemplateText == "Generate a UCC compliant Promissory Note for $10,000 between generic parties."
AnalyzeText == "Analyze the uploaded document for clause risks"

\* the length of the ledger at which the session is over: nothing is
\* started that would make the ledger longer
MaxLedger == 5

\* there is room for n more entries besides the one that every handleSend
\* in flight is going to write
Room(n) == Len(entries) + Len(sends) + n <= MaxLedger

\* the state of a LegalAdvisor that was just mounted
MountedAdvisor ==
    [isLoading |-> FALSE, pendingAction |-> "null", selectedFiles |-> 0, inputText |-> ""]

\* the guard of handleSend ignores isLoading
handleSendReturns_IgnoresLoading(textToSend, files, loading) ==
    Trim(textToSend) = "" /\ files = 0

\* handleSend: `if ((!textToSend.trim() && selectedFiles.length === 0) || isLoading) return`
handleSendReturns(textToSend, files, loading) ==
    (Trim(textToSend) = "" /\ files = 0) \/ loading

\* overrideText || inputText
TextToSend(overrideText, inputText) == IF overrideText # "" THEN overrideText ELSE inputText

InitAdvisor ==
    /\ op = "none"
    /\ arg = NoArg
    /\ ret = NoArg
    /\ now = 0
    /\ pc = "idle"
    /\ menu = {}
    /\ toolsPolicyState = [ordinaryPassed |-> FALSE]
    /\ offered = {}
    /\ turns = 0
    /\ functionCalls = <<>>
    /\ functionResponses = <<>>
    /\ contents = <<>>
    /\ entries = <<GenesisEntry>>
    /\ finalResponseText = ""
    /\ library = ShippedLibrary
    /\ LedgerIdle
    /\ ReplayIdle
    /\ SessionsIdle
    /\ currentView = "advisor"
    /\ legalAdvisor = MountedAdvisor
    /\ sends = <<>>

AdvisorFrame ==
    /\ UNCHANGED <<now, pc, menu, toolsPolicyState, offered, turns, functionCalls,
                   functionResponses, contents, finalResponseText, library>>
    /\ UNCHANGED <<ledgerVars, earlier, runs>>

NoCall ==
    /\ op' = "none"
    /\ arg' = NoArg
    /\ ret' = NoArg

\* the body of handleSend: past the guard it appends the 'Eye Witness Input'
\* entry, clears the input, sets isLoading and calls sendLegalMessage;
\* pendingAction is what the caller leaves in the pending action
handleSend(overrideText, pendingAction) ==
    LET textToSend == TextToSend(overrideText, legalAdvisor.inputText) IN
    IF handleSendReturns(textToSend, legalAdvisor.selectedFiles, legalAdvisor.isLoading)
    THEN /\ UNCHANGED <<entries, sends>>
         /\ legalAdvisor' = [legalAdvisor EXCEPT !.pendingAction = pendingAction]
    ELSE /\ Room(2)
         /\ entries' = addEntry(entries, "Eye Witness Input",
                                IF textToSend # "" THEN <<Lit(textToSend)>>
                                ELSE <<Lit("Processing "), Lit("n"), Lit(" artifacts")>>,
                                "Advisor", "Pending")
         /\ legalAdvisor' = [legalAdvisor EXCEPT !.inputText = "", !.selectedFiles = 0,
                                                 !.isLoading = TRUE,
                                                 !.pendingAction = pendingAction]
         /\ sends' = Append(sends, [mounted |-> TRUE, await |-> "sendLegalMessage"])

\* the textarea's onChange
TypeText ==
    /\ currentView = "advisor"
    /\ \E text \in InputTexts : legalAdvisor' = [legalAdvisor EXCEPT !.inputText = text]
    /\ legalAdvisor' # legalAdvisor
    /\ NoCall
    /\ UNCHANGED <<entries, sends, currentView>>
    /\ AdvisorFrame

\* the Enter key in the textarea
PressEnter ==
    /\ currentView = "advisor"
    /\ handleSend("", legalAdvisor.pendingAction)
    /\ NoCall
    /\ UNCHANGED currentView
    /\ AdvisorFrame

\* the submit button, which is disabled without input and while loading
ClickSend ==
    /\ currentView = "advisor"
    /\ ~((legalAdvisor.inputText = "" /\ legalAdvisor.selectedFiles = 0) \/ legalAdvisor.isLoading)
    /\ handleSend("", legalAdvisor.pendingAction)
    /\ NoCall
    /\ UNCHANGED currentView
    /\ AdvisorFrame

\* a button of the template menu
ClickTemplate ==
    /\ currentView = "advisor"
    /\ handleSend(TemplateText, legalAdvisor.pendingAction)
    /\ NoCall
    /\ UNCHANGED currentView
    /\ AdvisorFrame

\* the Upload & Analyze button
ClickAnalyze ==
    /\ currentView = "advisor"
    /\ legalAdvisor.pendingAction = "null"
    /\ legalAdvisor' = [legalAdvisor EXCEPT !.pendingAction = "ANALYZE_RISK"]
    /\ NoCall
    /\ UNCHANGED <<entries, sends, currentView>>
    /\ AdvisorFrame

\* processFiles, once the files are read
StageFiles ==
    /\ currentView = "advisor"
    /\ legalAdvisor.selectedFiles = 0
    /\ Room(1)
    /\ legalAdvisor' = [legalAdvisor EXCEPT !.selectedFiles = 1]
    /\ entries' = addEntry(entries, "Evidence Ingestion",
                           <<Lit("Ingested "), Lit("n"), Lit(" artifacts")>>, "Advisor", "Verified")
    /\ NoCall
    /\ UNCHANGED <<sends, currentView>>
    /\ AdvisorFrame

\* the auto-analyze effect: handleSend, then setPendingAction(null)
AutoAnalyze ==
    /\ currentView = "advisor"
    /\ legalAdvisor.pendingAction = "ANALYZE_RISK"
    /\ legalAdvisor.selectedFiles > 0
    /\ ~legalAdvisor.isLoading
    /\ handleSend(AnalyzeText, "null")
    /\ NoCall
    /\ UNCHANGED currentView
    /\ AdvisorFrame

\* a navigation button of the application: the LegalAdvisor is rendered
\* only in the advisor view, so leaving the view unmounts it and coming back
\* mounts a new one; a handleSend that is waiting goes on
SwitchView ==
    /\ \E view \in {"advisor", "other"} :
          /\ view # currentView
          /\ currentView' = view
          /\ legalAdvisor' = IF view = "advisor" THEN MountedAdvisor ELSE NoArg
    /\ sends' = [i \in 1..Len(sends) |-> [sends[i] EXCEPT !.mounted = FALSE]]
    /\ NoCall
    /\ UNCHANGED entries
    /\ AdvisorFrame

Without(s, i) == SubSeq(s, 1, i - 1) \o SubSeq(s, i + 1, Len(s))

\* the finally block of handleSend: setIsLoading(false), which does nothing
\* to a component that is no longer mounted
Finally(i) ==
    /\ legalAdvisor' = IF sends[i].mounted
                       THEN [legalAdvisor EXCEPT !.isLoading = FALSE]
                       ELSE legalAdvisor
    /\ sends' = Without(sends, i)

\* sendLegalMessage returns: handleSend calls runArbiterAudit
SendLegalMessageReturns ==
    /\ \E i \in 1..Len(sends) :
          /\ sends[i].await = "sendLegalMessage"
          /\ sends' = [sends EXCEPT ![i].await = "runArbiterAudit"]
    /\ NoCall
    /\ UNCHANGED <<entries, legalAdvisor, currentView>>
    /\ AdvisorFrame

\* sendLegalMessage throws: the catch block and the finally block
SendLegalMessageThrows ==
    /\ \E i \in 1..Len(sends) :
          /\ sends[i].await = "sendLegalMessage"
          /\ Finally(i)
    /\ entries' = addEntry(entries, "System Interrupt",
                           <<Lit("Failed to retrieve legal counsel")>>, "System", "Error")
    /\ NoCall
    /\ UNCHANGED currentView
    /\ AdvisorFrame

\* runArbiterAudit ends: the 'Counsel Dispensed' entry, or the catch block
\* if it threw, and the finally block
CriticEnds ==
    /\ \E i \in 1..Len(sends) :
          /\ sends[i].await = "runArbiterAudit"
          /\ Finally(i)
    /\ \E answer \in CriticAnswers :
          LET auditResult == runArbiterAudit(answer) IN
          /\ op' = "runArbiterAudit"
          /\ arg' = answer
          /\ ret' = auditResult
          /\ entries' =
                IF auditResult.kind = "throw"
                THEN addEntry(entries, "System Interrupt",
                              <<Lit("Failed to retrieve legal counsel")>>, "System", "Error")
                ELSE addEntry(entries, "Counsel Dispensed",
                              <<Lit("Audit Score: "), Lit(ToString(auditResult.value.score)), Lit("%")>>,
                              "Arbiter", CounselStatus(auditResult.value.score))
    /\ UNCHANGED currentView
    /\ AdvisorFrame

NextAdvisor ==
    \/ TypeText
    \/ PressEnter
    \/ ClickSend
    \/ ClickTemplate
    \/ ClickAnalyze
    \/ StageFiles
    \/ AutoAnalyze
    \/ SwitchView
    \/ SendLegalMessageReturns
    \/ SendLegalMessageThrows
    \/ CriticEnds

SpecAdvisor == InitAdvisor /\ [][NextAdvisor]_vars

(* 8. Properties of the policy gate *)

\* the call returned v
IsReturn(r, v) == r.kind = "return" /\ r.value = v

\* a response of the run that carries the verdict of the named tool
IsVerdictOf(resp, name) == resp.name = name /\ resp.response.result.kind = "verdict"

\* the most recent Ordinary verdict among the responses passed
LastOrdinaryVerdictPassed(resps) ==
    \E i \in 1..Len(resps) :
        /\ IsVerdictOf(resps[i], "verify_ordinary")
        /\ resps[i].response.result.passed
        /\ \A j \in (i + 1)..Len(resps) : ~IsVerdictOf(resps[j], "verify_ordinary")

\* C1: within a run the necessity checker is executed only after an Ordinary
\* check of the same run has returned passed = true; a verify_necessary call
\* that arrives before any passing verify_ordinary is not executed.
C1_NecessaryOnlyAfterOrdinaryPassed ==
    \A i \in 1..Len(AllResponses) :
        IsVerdictOf(AllResponses[i], "verify_necessary") =>
            \E j \in 1..(i - 1) :
                /\ IsVerdictOf(AllResponses[j], "verify_ordinary")
                /\ AllResponses[j].response.result.passed

\* C2: whenever the language model is called, verify_necessary is among the
\* tools offered exactly when the most recent verify_ordinary verdict of the
\* run passed: a later failing Ordinary verdict closes the gate again.
C2_OfferedIffLastOrdinaryPassed ==
    pc = "generateContent" =>
        (("verify_necessary" \in offered) <=> LastOrdinaryVerdictPassed(AllResponses))

\* how the last Ordinary result of a history was made; "none" without one
LastOrdinaryMade(history) ==
    IF ~history.present THEN "none"
    ELSE LET idx == {i \in 1..Len(history.items) :
                        /\ history.items[i].type = "function_call_result"
                        /\ history.items[i].name = "is_ordinary_rule_checker"}
         IN  IF idx = {} THEN "none"
             ELSE history.items[CHOOSE i \in idx : \A j \in idx : j <= i].made

PassItem == ResultItem("is_ordinary_rule_checker", JSONstringify(PassStep), "pass")
FailItem == ResultItem("is_ordinary_rule_checker", JSONstringify(FailStep), "fail")

\* C3: isNecessaryEnabled returns true exactly when the history holds an
\* Ordinary result and the last one has passed = true; it returns false for
\* an absent or empty history, for a history without an Ordinary result and
\* for [PASS, FAIL], and true for [FAIL, PASS].
C3_GateIffLastOrdinaryPassed ==
    op = "isNecessaryEnabled" =>
        /\ IsReturn(ret, TRUE) <=> (LastOrdinaryMade(arg) = "pass")
        /\ LastOrdinaryMade(arg) \in {"none", "fail"} => IsReturn(ret, FALSE)
        /\ arg.items = <<PassItem, FailItem>> => IsReturn(ret, FALSE)
        /\ arg.items = <<FailItem, PassItem>> => IsReturn(ret, TRUE)

C3_Witness ==
    /\ op = "isNecessaryEnabled"
    /\ arg.present
    /\ arg.items = <<FailItem, PassItem>>
    /\ IsReturn(ret, TRUE)

\* C4: when the output of the last Ordinary result is truncated or otherwise
\* invalid JSON, isNecessaryEnabled returns false and raises no exception.
C4_MalformedOutputResolvesFalse ==
    (op = "isNecessaryEnabled" /\ LastOrdinaryMade(arg) = "invalid") => IsReturn(ret, FALSE)

---------------------------------------------------------------------------
(* 9. Properties of the engine functions *)

SupportedForms == {"promissory_note_ucc", "security_agreement_ucc", "bill_of_sale_ucc",
                   "contractor_agreement"}

\* every literal piece of the four templates
TemplatePieces ==
    {T_Note_1, T_Note_2, T_Note_3, T_Note_4, T_Note_5, T_Note_5a, T_Note_5b, T_Note_6,
     T_Note_7, T_Note_8,
     T_Sec_1, T_Sec_2, T_Sec_3, T_Sec_4, T_Sec_4a, T_Sec_5, T_Sec_6, T_Sec_7,
     T_Bill_1, T_Bill_2, T_Bill_3, T_Bill_4, T_Bill_5, T_Bill_6, T_Bill_7,
     T_Con_1, T_Con_2, T_Con_3, T_Con_4, T_Con_5}

\* the text is the short blocked message: it holds GENERATION BLOCKED and no
\* piece of a template
IsBlockedText(markdown) ==
    /\ \E i \in 1..Len(markdown) : markdown[i] = M_BLOCKED
    /\ \A i \in 1..Len(markdown) : markdown[i] \notin TemplatePieces

\* C5: for the four supported form types a verdict with passed = false comes
\* with the short GENERATION BLOCKED message and no part of the template; a
\* security agreement with an empty collateral is blocked in this way.
C5_FailedFormIsBlocked ==
    (op = "generateVerifiedForm" /\ arg.type \in SupportedForms) =>
        /\ ~ret.value.validation.passed => IsBlockedText(ret.value.markdown)
        /\ (arg.type = "security_agreement_ucc" /\ arg.data["collateral"] = Str(<<>>)) =>
                /\ ~ret.value.validation.passed
                /\ IsBlockedText(ret.value.markdown)

C5_Witness ==
    /\ op = "generateVerifiedForm"
    /\ arg.type = "security_agreement_ucc"
    /\ arg.data["collateral"] = Str(<<>>)
    /\ ~ret.value.validation.passed
    /\ IsBlockedText(ret.value.markdown)

C7_NonPositiveRevenueIsRejected ==
    (op = "verifyNecessary" /\ arg.business_revenue <= 0) =>
        (ret.kind = "throw" /\ ret.error = "InvalidArgument")

RECURSIVE Pick(_, _)
Pick(flags, texts) ==
    IF Len(flags) = 0 THEN <<>>
    ELSE (IF Head(flags) THEN <<Head(texts)>> ELSE <<>>) \o Pick(Tail(flags), Tail(texts))

\* the violations of UCC 3-104 a set of terms has, in the fixed order
ExpectedViolations(terms) ==
    Pick(<<terms.promise_type = "conditional",
           terms.amount_type = "variable",
           terms.payable_to \notin {"bearer", "order"},
           terms.timing \notin {"demand", "definite"},
           terms.other_undertakings>>,
         <<F_promise, F_amount, F_payable, F_timing, F_undertaking>>)

\* C9: verifyNegotiability evaluates all five conditions: the details name
\* every violated condition and no other, in the fixed order, and the verdict
\* passes exactly when none is violated.
C9_AllViolationsListed ==
    op = "verifyNegotiability" =>
        /\ ret.kind = "return"
        /\ ret.value.passed <=> (ExpectedViolations(arg) = <<>>)
        /\ ~ret.value.passed =>
                ret.value.details =
                    <<Lit("FAILED: Non-negotiable. Violations: ")>>
                        \o join(ExpectedViolations(arg), ", ")

C9_Witness ==
    /\ op = "verifyNegotiability"
    /\ Len(ExpectedViolations(arg)) = 5
    /\ ~ret.value.passed
    /\ \A f \in {F_promise, F_amount, F_payable, F_timing, F_undertaking} :
            \E i \in 1..Len(ret.value.details) : ret.value.details[i] = f[1]

\* the risks of a clause text put together from the phrases chosen
ExpectedRisks(chosen, docType) ==
    Pick(<<chosen \cap {1, 2, 3} # {},
           chosen \cap {4, 5} # {} /\ 6 \in chosen,
           7 \in chosen /\ docType = D_service_contract,
           8 \in chosen /\ 9 \notin chosen,
           chosen \cap {10, 11} # {}>>,
         <<R_arbitration, R_indemnify, R_perpetuity, R_penalty,
           <<Lit("CRITICAL: Prohibited in consumer contracts. Source: "),
             Lit("16 CFR Sec. 444.2")>> >>)

\* C10: analyzeContractRisks runs all five pattern checks in order and
\* keeps every match: the verdict passes exactly when no risk was found, and
\* otherwise the details are the risks joined in the order of the checks.
C10_AllRisksAccumulated ==
    op = "analyzeContractRisks" =>
        /\ ret.kind = "return"
        /\ ret.value.passed <=> (ExpectedRisks(arg.chosen, arg.docType) = <<>>)
        /\ ~ret.value.passed =>
                ret.value.details =
                    <<Lit("RISK ALERT: ")>>
                        \o join(ExpectedRisks(arg.chosen, arg.docType), " | ")

C10_Witness ==
    /\ op = "analyzeContractRisks"
    /\ Len(ExpectedRisks(arg.chosen, arg.docType)) = 5
    /\ ~ret.value.passed
    /\ \A r \in {R_arbitration, R_indemnify, R_perpetuity, R_penalty} :
            \E i \in 1..Len(ret.value.details) : ret.value.details[i] = r[1]

---------------------------------------------------------------------------
(* 10. Properties of the Law Library *)

\* C11: for every query string consultStatute returns the entry of the first
\* key, in the order of the library, that holds the query or is held by it,
\* letter case ignored; without such a key it returns found = false, and it
\* never throws.
C11_FirstMatchingKeyWins ==
    op = "consultStatute" =>
        /\ ret.kind = "return"
        /\ ret.value.found <=> (arg.expect # 0)
        /\ ret.value.found =>
                /\ ret.value.title = LAW_LIBRARY(arg.expect).title
                /\ ret.value.text = LAW_LIBRARY(arg.expect).text
                /\ ret.value.citation = LAW_LIBRARY(arg.expect).source

C11_Witness ==
    /\ op = "consultStatute"
    /\ arg.q = <<"2">>
    /\ ret.value.found
    /\ ret.value.title = "Attachment and Enforceability of Security Interest"

C11_WitnessMiss ==
    /\ op = "consultStatute"
    /\ arg.expect = 0
    /\ ~ret.value.found

\* the last piece of a text
LastPiece(text) == text[Len(text)]

\* C12: a lookup miss aborts no checker: whatever the corpus holds,
\* verifyNegotiability, analyzeContractRisks and the security-agreement
\* branch of generateVerifiedForm return a verdict, which cites the
\* library's citation when the statute was found and the fixed default
\* citation otherwise.
C12_LookupMissKeepsVerdict ==
    /\ op = "verifyNegotiability" =>
            /\ ret.kind = "return"
            /\ ret.value.rule_id = "UCC_3_104"
            /\ ret.value.evidence_source =
                    IF 1 \in library THEN <<Lit("Uniform Commercial Code Sec. 3-104")>>
                    ELSE <<Lit("UCC 3-104")>>
    /\ (op = "analyzeContractRisks" /\ arg.chosen \cap {10, 11} # {}) =>
            /\ ret.kind = "return"
            /\ ~ret.value.passed
            /\ LastPiece(ret.value.details) =
                    IF 4 \in library THEN Lit("16 CFR Sec. 444.2")
                    ELSE Lit("CRITICAL: Confession of Judgment clauses are prohibited in consumer contracts (16 CFR 444.2).")
    /\ (op = "generateVerifiedForm" /\ arg.type = "security_agreement_ucc") =>
            /\ ret.kind = "return"
            /\ ret.value.validation.rule_id = "UCC_9_203"
            /\ ret.value.validation.passed =>
                    ret.value.validation.evidence_source =
                        IF 2 \in library THEN <<Lit("Uniform Commercial Code Sec. 9-203")>>
                        ELSE <<Lit("UCC Article 9")>>

C12_Witness ==
    /\ library = {}
    /\ op = "generateVerifiedForm"
    /\ arg.type = "security_agreement_ucc"
    /\ ret.value.validation.passed
    /\ ret.value.validation.evidence_source = <<Lit("UCC Article 9")>>

\* C13: for a security agreement the verdict passes exactly when the
\* collateral field is present and has more than 3 characters, whatever the
\* other fields hold; otherwise the verdict fails.
C13_SecurityAgreementNeedsCollateral ==
    (op = "generateVerifiedForm" /\ arg.type = "security_agreement_ucc") =>
        /\ ret.value.validation.rule_id = "UCC_9_203"
        /\ ret.value.validation.passed <=>
                /\ arg.data["collateral"].t = "string"
                /\ Len(arg.data["collateral"].s) > 3
        /\ ret.value.validation.passed <=>
                arg.data["collateral"] \in {Str(S_boat), Str(S_f150)}

C13_Witness ==
    /\ op = "generateVerifiedForm"
    /\ arg.type = "security_agreement_ucc"
    /\ arg.data["collateral"] = Str(<<"c", "a", "r">>)
    /\ ~ret.value.validation.passed

C13_WitnessPass ==
    /\ op = "generateVerifiedForm"
    /\ arg.type = "security_agreement_ucc"
    /\ arg.data["collateral"] = Str(<<"b", "o", "a", "t">>)
    /\ ret.value.validation.passed

---------------------------------------------------------------------------
(* 11. Properties of the tool loop *)

\* C14: in every tool result handed back to the language model,
\* generated_content is present only when the result comes from
\* draft_verified_form and its verdict passed; a failed form verdict and the
\* verdict of every other checker carry no generated_content.
C14_ContentOnlyWithPassedForm ==
    \A i \in 1..Len(AllResponses) :
        LET name == AllResponses[i].name
            result == AllResponses[i].response.result
        IN  /\ result.has_generated_content =>
                    /\ name = "draft_verified_form"
                    /\ result.kind = "verdict"
                    /\ result.passed
                    /\ result.generated_content # <<>>
            /\ ~result.has_generated_content => result.generated_content = <<>>

C14_Witness ==
    /\ \E i \in 1..Len(AllResponses) :
            /\ AllResponses[i].name = "draft_verified_form"
            /\ AllResponses[i].response.result.passed
            /\ AllResponses[i].response.result.has_generated_content
    /\ \E i \in 1..Len(AllResponses) :
            /\ AllResponses[i].name = "draft_verified_form"
            /\ ~AllResponses[i].response.result.passed
            /\ ~AllResponses[i].response.result.has_generated_content

\* old is the tail end of new
IsSuffix(old, new) ==
    /\ Len(old) <= Len(new)
    /\ \A i \in 1..Len(old) : old[i] = new[Len(new) - Len(old) + i]

\* the call of the menus whose checker throws: verifyOrdinary reads
\* expense_item.toLowerCase() of an item that is undefined
CheckerThrowsOn(call) ==
    /\ call.name = "verify_ordinary"
    /\ call.args.expense_item = Undefined

\* a call of the menus whose checker passes an item of the carpenter's list
OrdinaryPassesOn(call) ==
    /\ call.name = "verify_ordinary"
    /\ call.args.expense_item \in {Str(S_truck), Str(S_saw)}

C19_WitnessGateShut ==
    /\ pc = "generateContent"
    /\ Len(contents) = 3
    /\ Len(contents[2].parts) = 1
    /\ CheckerThrowsOn(contents[2].parts[1])
    /\ contents[3].parts[1].functionResponse.response.result.kind = "error"
    /\ ~toolsPolicyState.ordinaryPassed
    /\ "verify_necessary" \notin offered
    /\ entries[1].status = "Error"

\* the batches handed back so far
Batches == (Len(contents) - 1) \div 2

\* C20: within a run the function responses are in call order: every batch
\* gets exactly one response per call, in the order of the calls, and the
\* conversation holds the batches, each the model's calls followed by their
\* responses, in the order in which they were executed.
C20_ResponsesInCallOrder ==
    /\ Len(functionResponses) <= Len(functionCalls)
    /\ \A i \in 1..Len(functionResponses) :
            /\ functionResponses[i].id = <<turns, i>>
            /\ functionResponses[i].id = functionCalls[i].id
            /\ functionResponses[i].name = functionCalls[i].name
    /\ Len(contents) = 1 + 2 * Batches
    /\ Batches = IF pc = "forLoop" THEN turns - 1 ELSE turns
    /\ contents[1].role = "user"
    /\ \A k \in 1..Batches :
            LET calls == contents[2 * k]
                responses == contents[2 * k + 1]
            IN  /\ calls.role = "model"
                /\ responses.role = "user"
                /\ Len(calls.parts) >= 1
                /\ Len(responses.parts) = Len(calls.parts)
                /\ \A i \in 1..Len(calls.parts) :
                        /\ calls.parts[i].id = <<k, i>>
                        /\ IsResponsePart(responses.parts[i])
                        /\ responses.parts[i].functionResponse.id = <<k, i>>
                        /\ responses.parts[i].functionResponse.name = calls.parts[i].name

C20_Witness ==
    /\ pc = "forLoop"
    /\ turns = 3
    /\ Len(contents) = 5
    /\ Len(contents[2].parts) = 2
    /\ contents[2].parts[1].name # contents[2].parts[2].name
    /\ contents[3].parts[1].functionResponse.name = contents[2].parts[1].name
    /\ contents[3].parts[2].functionResponse.name = contents[2].parts[2].name
    /\ Len(contents[4].parts) = 1
    /\ contents[5].parts[1].functionResponse.id = <<2, 1>>
    /\ Len(functionCalls) = 2
    /\ Len(functionResponses) = 2
    /\ functionResponses[2].id = <<3, 2>>

\* the tools that produce a verdict, with the action of the Pending entry
\* and of the result entry of each
VerdictTools ==
    [verify_ordinary |-> <<"Verification: Ordinary", "Result: ordinary">>,
     verify_necessary |-> <<"Verification: Necessary", "Result: necessary">>,
     verify_negotiability |-> <<"UCC 3-104 Check", "Result: negotiability">>,
     analyze_clause_risks |-> <<"Risk Analysis", "Result: clause_risks">>,
     draft_verified_form |-> <<"Form Generation", "Result: draft_verified_form">>]

C24_VerdictIsNeverChanged ==
    \A i \in 1..Len(AllResponses) :
        LET result == AllResponses[i].response.result IN
        result.kind = "verdict" =>
            /\ ~result.has_generated_content
            /\ result.passed = result.verdict.passed
            /\ result.details = result.verdict.details

---------------------------------------------------------------------------
(* 12. Properties of the audit ledger *)

\* a sequence read backwards
Reverse(seq) == [i \in 1..Len(seq) |-> seq[Len(seq) + 1 - i]]

\* C15: the ledger is newest-first: after addEntry calls with the entries
\* e1, ..., en and no reset in between, a read returns en, ..., e1 followed
\* by the entries that were there before, in their previous order.
C15_LedgerNewestFirst ==
    Ledger = Reverse(appended) \o atReset

C15_Witness ==
    /\ Len(appended) = 3
    /\ updateQueue = <<>>
    /\ entries[1] = appended[3]
    /\ entries[2] = appended[2]
    /\ entries[3] = appended[1]
    /\ appended[1].action # appended[2].action
    /\ appended[2].action # appended[3].action
    /\ entries[4].action = "ArbiterOS Initialization"

\* C16: after clearLog, whatever the ledger held before, a read returns
\* exactly one entry, whose action denotes a system reset.
C16_ResetLeavesOneRebootEntry ==
    lastOp = "clearLog" =>
        /\ Len(Ledger) = 1
        /\ Ledger[1].action = "System Reboot"
        /\ updateQueue = <<>> => entries = Ledger

C16_Witness ==
    /\ lastOp = "clearLog"
    /\ Len(entries) >= 3
    /\ updateQueue # <<>>
    /\ Len(Ledger) = 1
    /\ Ledger[1].action = "System Reboot"

\* C17: the ledger is append-only between resets: an addEntry removes no
\* entry and changes no field of one (what was read before is the tail end
\* of what is read after), and of all the operations of the Advisor, the
\* Studio and the tool loop, clearLog is the only one after which an earlier
\* entry is missing.
C17_AppendOnlyBetweenResets ==
    [][IsSuffix(Ledger, Ledger') \/ HandleReset]_vars

C17_Witness ==
    /\ lastOp = "addEntry"
    /\ Len(atReset) = 1
    /\ atReset[1].action = "System Reboot"
    /\ Len(appended) = 2
    /\ appended[1].source = "Studio"
    /\ appended[2].source = "System"
    /\ IsSuffix(atReset, Ledger)
    /\ Len(Ledger) = 3

\* the number of places of a sequence that hold x
Count(seq, x) == Cardinality({i \in 1..Len(seq) : seq[i] = x})

C28_OldestEntryIsGenesisOrReset ==
    /\ Len(entries) >= 1
    /\ Len(Ledger) >= 1
    /\ Ledger[Len(Ledger)] = atReset[1]
    /\ Ledger[Len(Ledger)].action \in {"System Reboot", "ArbiterOS Initialization"}
    /\ lastOp = "clearLog" => Ledger[Len(Ledger)].action = "System Reboot"
    /\ \A i \in 1..(Len(Ledger) - 1) :
            /\ Ledger[i].action \notin {"System Reboot", "ArbiterOS Initialization"}
            /\ \E j \in 1..Len(appended) : appended[j] = Ledger[i]

C28_Witness ==
    /\ advisor = "sending"
    /\ \A i \in 1..Len(Ledger) : Ledger[i].action # "Eye Witness Input"
    /\ Len(Ledger) = 3
    /\ Ledger[3].action = "System Reboot"
    /\ Ledger[2].action = "Covenant Protocol"
    /\ Ledger[1].action = "Visual Concept Request"
    /\ Len(entries) = 2
    /\ entries[2].action = "ArbiterOS Initialization"

---------------------------------------------------------------------------
(* 13. Properties of the form synthesizer, the checkers and the critic *)

\* the literal pieces every rendering of a form's template holds
FullTemplate(type) ==
    CASE type = "promissory_note_ucc" ->
            {T_Note_1, T_Note_2, T_Note_3, T_Note_4, T_Note_5, T_Note_6, T_Note_7, T_Note_8}
      [] type = "bill_of_sale_ucc" ->
            {T_Bill_1, T_Bill_2, T_Bill_3, T_Bill_4, T_Bill_5, T_Bill_6, T_Bill_7}
      [] type = "contractor_agreement" ->
            {T_Con_1, T_Con_2, T_Con_3, T_Con_4, T_Con_5}
      [] OTHER -> {}

\* C29: generateVerifiedForm returns passed = false in exactly two cases: a
\* security agreement whose collateral is missing or has at most three
\* characters, and a form type outside the four supported ones, which gets
\* rule_id FORM_GEN and an empty text.  A promissory note, a bill of sale
\* and a contractor agreement pass with the whole template for every data,
\* data with every field missing included.
C29_FormFailsInTwoCasesOnly ==
    op = "generateVerifiedForm" =>
        /\ ret.kind = "return"
        /\ ~ret.value.validation.passed <=>
              \/ /\ arg.type = "security_agreement_ucc"
                 /\ arg.data["collateral"] \in {Undefined, Str(<<>>), Str(<<"c", "a", "r">>)}
              \/ arg.type = "lease_agreement"
        /\ arg.type = "lease_agreement" =>
              /\ ret.value.validation.rule_id = "FORM_GEN"
              /\ ret.value.markdown = <<>>
        /\ arg.type \in {"promissory_note_ucc", "bill_of_sale_ucc", "contractor_agreement"} =>
              /\ ret.value.validation.passed
              /\ \A piece \in FullTemplate(arg.type) :
                    \E i \in 1..Len(ret.value.markdown) : ret.value.markdown[i] = piece
              /\ ~IsBlockedText(ret.value.markdown)

C29_Witness ==
    /\ op = "generateVerifiedForm"
    /\ arg.type = "contractor_agreement"
    /\ \A f \in FormFields : arg.data[f] = Undefined
    /\ ret.value.validation.passed
    /\ ret.value.validation.rule_id = "COMMON_LAW_AGENCY"
    /\ Len(ret.value.markdown) = 10

C29_WitnessUnknown ==
    /\ op = "generateVerifiedForm"
    /\ arg.type = "lease_agreement"
    /\ ~ret.value.validation.passed
    /\ ret.value.validation.rule_id = "FORM_GEN"
    /\ ret.value.markdown = <<>>

---------------------------------------------------------------------------
(* 14. Properties of runs side by side *)

\* C21: the policy state is local to a run: a run starts with the necessity
\* checker not offered, whatever earlier or concurrent runs found, and the
\* checker is offered to a run, and its gate open, only after a passing
\* ordinary verdict of that same run.
C21_PolicyStateIsLocalToARun ==
    \A r \in Runs :
        /\ (runs[r].pc = "generateContent" /\ runs[r].turns = 0) =>
                /\ "verify_necessary" \notin runs[r].offered
                /\ ~runs[r].toolsPolicyState.ordinaryPassed
        /\ "verify_necessary" \in runs[r].offered => runs[r].made
        /\ runs[r].toolsPolicyState.ordinaryPassed => runs[r].made

C21_Witness ==
    /\ runs[1].pc = "generateContent"
    /\ runs[1].made
    /\ "verify_necessary" \in runs[1].offered
    /\ runs[2].pc = "generateContent"
    /\ runs[2].turns = 2
    /\ ~runs[2].made
    /\ "verify_necessary" \notin runs[2].offered
    /\ ~runs[2].toolsPolicyState.ordinaryPassed

\* a run is started while the other one has its gate open
C21_WitnessStart ==
    /\ runs[1].toolsPolicyState.ordinaryPassed
    /\ runs[1].pc = "forLoop"
    /\ runs[2].pc = "generateContent"
    /\ runs[2].turns = 0
    /\ "verify_necessary" \notin runs[2].offered

\* C22: within a run at most one checker call is in flight: the checker of
\* a call is started only when every earlier call of the batch has its
\* response, returned or thrown, and the next model turn, with its gate
\* evaluation, starts only when every call of the batch has its response.
C22_OneCheckerInFlightPerRun ==
    [][\A r \in Runs :
        /\ Cardinality(runs'[r].inFlight) <= 1
        /\ \A i \in runs'[r].inFlight \ runs[r].inFlight :
                /\ runs[r].inFlight = {}
                /\ Len(runs[r].functionResponses) = i - 1
        /\ (runs[r].pc = "forLoop" /\ runs'[r].pc # "forLoop") =>
                /\ runs'[r].pc = "generateContent"
                /\ runs[r].inFlight = {}
                /\ Len(runs[r].functionResponses) = Len(runs[r].functionCalls)
                /\ runs'[r].offered = getAllowedTools(runs[r].toolsPolicyState)
        /\ (runs[r].pc = "forLoop" /\ runs'[r].pc = "forLoop") =>
                runs'[r].offered = runs[r].offered]_vars

C22_Witness ==
    /\ runs[1].pc = "forLoop"
    /\ Len(runs[1].functionCalls) = 2
    /\ Len(runs[1].functionResponses) = 1
    /\ runs[1].functionResponses[1].response.result.kind = "error"
    /\ runs[1].inFlight = {2}
    /\ runs[2].pc = "forLoop"
    /\ runs[2].inFlight = {1}

\* C26: the tool loop is bounded: a run executes at most 5 batches; when
\* the model still asks for calls after the fifth, they are not executed
\* and the run ends with the model's text or the default message; and a
\* run whose model calls and checker calls all return comes to its end.
C26_ToolLoopIsBounded ==
    /\ [](\A r \in Runs :
            /\ runs[r].turns <= 5
            /\ runs[r].pc = "done" =>
                    /\ runs[r].functionCalls = <<>>
                    /\ runs[r].inFlight = {}
                    /\ runs[r].finalResponseText \in
                            {"counsel", "The Governance Ledger has been updated."}
                    /\ runs[r].refused => runs[r].turns = 5)
    /\ \A r \in Runs : (runs[r].pc = "generateContent") ~> (runs[r].pc = "done")

C26_Witness ==
    /\ runs[1].pc = "done"
    /\ runs[1].refused
    /\ runs[1].turns = 5
    /\ runs[1].finalResponseText = "The Governance Ledger has been updated."

(* 15. Properties of the LegalAdvisor and the critic *)

\* the 'Eye Witness Input' entries of a ledger
EyeWitnessInputs(log) == {i \in 1..Len(log) : log[i].action = "Eye Witness Input"}

\* the handleSend calls in flight that the mounted LegalAdvisor started
OwnSends(inFlight) == {i \in 1..Len(inFlight) : inFlight[i].mounted}

FailedAnswers ==
    {Throw("ApiError"), Return(<<"null">>), Return(<<"{", "\"score\"", ":", "0.8">>)}

\* the answers that carry a non-zero score of at most 0.8
LowScoreAnswers ==
    {Return(<<"{", "\"score\"", ":", "0.8", ",", "\"critique\"", ":", "\"notes\"", "}">>),
     Return(<<"{", "\"score\"", ":", "-0.1", ",", "\"critique\"", ":", "\"notes\"", "}">>)}

\* the answers that carry a score above 0.8
HighScoreAnswers ==
    {Return(<<"{", "\"score\"", ":", "0.81", ",", "\"critique\"", ":", "\"notes\"", "}">>)}

C30_WitnessRefining ==
    /\ op = "runArbiterAudit"
    /\ arg \in LowScoreAnswers
    /\ entries[1].status = "Refining"

====
